---- MODULE Spec2Model ----
(***************************************************************************)
(* A model of the population simulation and combat-resolution engine of    *)
(* the tribes repository: the CombatStats primitives (srpg_stats.py), the  *)
(* CombatResolver (srpg_combat.py), the herbivore and predator group       *)
(* updates (animal_system.py, predator_system.py), the disease / disaster  *)
(* part of the ecology update (events_ecology.py) and the turn pipeline    *)
(* of GameState.advance_turn (game_controller.py).                         *)
(*                                                                         *)
(* Numbers.  Health, attack, defense, speed, evasion, accuracy, age and    *)
(* the cooldowns are the integers of the code.  The code's floats are      *)
(* kept as scaled integers: a vegetation density d is the integer 300*d    *)
(* (so 0.05 = 15, 0.1 = 30, 0.3 = 90, 1/15 = 20), a temperature t is the   *)
(* integer 20*t (so that int(diff*20) is the difference of two integers),  *)
(* a probability is replaced by the choice between its outcomes whenever   *)
(* both have non-zero probability.                                         *)
(***************************************************************************)
EXTENDS Integers, Sequences, FiniteSets, TLC

VARIABLES
    \* ---- the simulation (specification Spec) ----
    agents,        \* every Animal / Predator object ever created, by id
    herbivores,    \* AnimalSystem.herbivores: the live list (ids, in order)
    predators,     \* PredatorSystem.predators: the live list (ids, in order)
    herb_map,      \* AnimalSystem.spatial_map: the entries (id, cell)
    pred_map,      \* PredatorSystem.spatial_map: the entries (id, cell)
    prey_map,      \* PredatorSystem.prey_map: the entries (id, cell)
    new_offspring, \* the update's local list new_offspring
    vegetation,    \* VegetationSystem.density, per cell, in 1/300
    temperature,   \* world.temperature, per cell, in 1/20
    diseases,      \* EventsEcologySystem.diseases
    disasters,     \* EventsEcologySystem.disasters
    pc,            \* position in GameState.advance_turn
    idx,           \* index of the agent the running loop is at
    turn,          \* GameState.turn
    death_log,     \* per agent: the 'death' callbacks emitted for it
    recent_deaths, \* per group: cause -> count of the last update
    last,          \* what the last step did (for the claims)
    population_history, \* per group and species: the counts appended so far
    statistics,    \* GameState.statistics: the list 'extinctions'
    \* ---- the combat harness (specification SpecCombat) ----
    h_pred,        \* CombatStats of the predator handed to the resolver
    h_prey,        \* CombatStats of the prey / the creature
    h_call,        \* the last call: name, arguments, state before
    h_ret,         \* what the last call returned
    h_phase        \* "fresh", "used" (one primitive called) or "done"

simVars == <<agents, herbivores, predators, herb_map, pred_map, prey_map, new_offspring,
             vegetation, temperature, diseases, disasters, pc, idx, turn,
             death_log, recent_deaths, last, population_history, statistics>>
harnessVars == <<h_pred, h_prey, h_call, h_ret, h_phase>>
vars == <<agents, herbivores, predators, herb_map, pred_map, prey_map, new_offspring,
          vegetation, temperature, diseases, disasters, pc, idx, turn,
          death_log, recent_deaths, last, population_history, statistics,
          h_pred, h_prey, h_call, h_ret, h_phase>>

Min(a, b) == IF a <= b THEN a ELSE b
Max(a, b) == IF a >= b THEN a ELSE b

(***************************************************************************)
(* srpg_stats.py: CombatStats                                              *)
(***************************************************************************)

\* CombatStats(max_hp, current_hp, attack, defense, speed, evasion, accuracy)
CombatStats(mhp, hp, atk, def, spd, eva, acc) ==
    [max_hp |-> mhp, current_hp |-> hp, attack |-> atk, defense |-> def,
     speed |-> spd, evasion |-> eva, accuracy |-> acc]

\* A plausible slip in take_damage: the floor of 1 on mitigated damage and
\* the clamp to the remaining health are left out.
take_damage_unclamped(s, raw_damage) ==
    LET actual_damage == raw_damage - s.defense
    IN  [stats |-> [s EXCEPT !.current_hp = s.current_hp - actual_damage],
         damage |-> actual_damage]

\* CombatStats.take_damage: the stats afterwards and the damage returned.
take_damage(s, raw_damage) ==
    LET mitigated == Max(1, raw_damage - s.defense)
        actual_damage == Min(mitigated, s.current_hp)
    IN  [stats |-> [s EXCEPT !.current_hp = s.current_hp - actual_damage],
         damage |-> actual_damage]

\* A plausible slip in heal: the cap at max_hp is missing.
heal_uncapped(s, amount) ==
    [s EXCEPT !.current_hp = s.current_hp + amount]

\* A plausible slip in heal: the creature is restored to full health
\* whatever the amount.
heal_to_full(s, amount) ==
    [s EXCEPT !.current_hp = s.max_hp]

\* CombatStats.heal
heal(s, amount) ==
    [s EXCEPT !.current_hp = Min(s.max_hp, s.current_hp + amount)]

\* CombatStats.is_alive
is_alive(s) == s.current_hp > 0

(***************************************************************************)
(* srpg_stats.py: TERRAIN_MODIFIERS, HAZARD_STATS, calculate_combat_damage *)
(***************************************************************************)

Biomes == 0..11

\* TERRAIN_MODIFIERS.get(terrain, {}) read with .get(key, 0) for the three
\* keys calculate_combat_damage reads.
TERRAIN_MODIFIERS(terrain) ==
    CASE terrain = 0  -> [accuracy |-> -10, evasion |-> -20, damage |-> 0]
      [] terrain = 3  -> [accuracy |-> -5,  evasion |-> -10, damage |-> 0]
      [] terrain = 6  -> [accuracy |-> -10, evasion |-> 10,  damage |-> 0]
      [] terrain = 7  -> [accuracy |-> -5,  evasion |-> 5,   damage |-> 0]
      [] terrain = 9  -> [accuracy |-> 0,   evasion |-> -5,  damage |-> 0]
      [] terrain = 10 -> [accuracy |-> 0,   evasion |-> 0,   damage |-> 3]
      [] terrain = 11 -> [accuracy |-> 0,   evasion |-> 15,  damage |-> 0]
      [] OTHER        -> [accuracy |-> 0,   evasion |-> 0,   damage |-> 0]

\* A plausible slip in calculate_combat_damage: the raw damage of the
\* attack is returned instead of the damage take_damage applied.
calculate_combat_damage_raw(attacker, defender, mods, hit_roll) ==
    IF hit_roll >= (attacker.accuracy + mods.accuracy) - (defender.evasion + mods.evasion)
    THEN [damage |-> 0, hit |-> FALSE, defender |-> defender]
    ELSE [damage |-> attacker.attack + mods.damage, hit |-> TRUE,
          defender |-> take_damage(defender, attacker.attack + mods.damage).stats]

\* A plausible slip in the hit check: a roll equal to the hit chance hits.
calculate_combat_damage_tie_hits(attacker, defender, mods, hit_roll) ==
    IF hit_roll > (attacker.accuracy + mods.accuracy) - (defender.evasion + mods.evasion)
    THEN [damage |-> 0, hit |-> FALSE, defender |-> defender]
    ELSE [damage |-> take_damage(defender, attacker.attack + mods.damage).damage,
          hit |-> TRUE,
          defender |-> take_damage(defender, attacker.attack + mods.damage).stats]

\* calculate_combat_damage(attacker, defender, terrain_modifiers) with the
\* draw np.random.randint(0, 100) given as hit_roll.
calculate_combat_damage(attacker, defender, mods, hit_roll) ==
    LET attacker_acc == attacker.accuracy + mods.accuracy
        defender_eva == defender.evasion + mods.evasion
        hit_chance == attacker_acc - defender_eva
    IN  IF hit_roll >= hit_chance
        THEN [damage |-> 0, hit |-> FALSE, defender |-> defender]
        ELSE LET raw_damage == attacker.attack + mods.damage
                 r == take_damage(defender, raw_damage)
             IN  [damage |-> r.damage, hit |-> TRUE, defender |-> r.stats]

(***************************************************************************)
(* srpg_combat.py: CombatResolver                                          *)
(***************************************************************************)

\* Forest(7), Rainforest(6), Taiga(8) provide cover for predators.
CoverBiomes == {6, 7, 8}

\* A plausible slip in the flight bonus: cover does not halve it.
flight_evasion_bonus_unhalved(pred_stats, prey_stats, terrain) ==
    IF prey_stats.speed - pred_stats.speed > 0 /\ ~(prey_stats.attack >= 10)
    THEN (prey_stats.speed - pred_stats.speed) * 2 ELSE 0

\* The prey's temporary evasion bonus (flight), lines 31-45 and 59-63.
flight_evasion_bonus(pred_stats, prey_stats, terrain) ==
    LET is_aggressive_prey == prey_stats.attack >= 10
        speed_diff == prey_stats.speed - pred_stats.speed
        can_flee == speed_diff > 0
        evasion_bonus == IF can_flee /\ ~is_aggressive_prey
                         THEN speed_diff * 2 ELSE 0
    IN  IF terrain \in CoverBiomes THEN evasion_bonus \div 2 ELSE evasion_bonus

\* The ambush bonus to the predator's accuracy, lines 58-61.
ambush_accuracy_bonus(terrain) == IF terrain \in CoverBiomes THEN 15 ELSE 0

\* The pack bonus to the predator's attack, lines 48-50.
pack_attack_bonus(pack_bonus, pack_members) ==
    IF pack_members > 0 THEN pack_bonus * pack_members ELSE 0

\* A plausible slip in the removal of the temporary bonuses: the pack bonus
\* stays on the predator's attack.
remove_temporary_bonuses_leaky(pred_stats, bonus, ambush_bonus) ==
    [pred_stats EXCEPT !.accuracy = @ - ambush_bonus]

\* "Remove temporary bonuses", lines 75-81.
remove_temporary_bonuses(pred_stats, bonus, ambush_bonus) ==
    [pred_stats EXCEPT !.attack = @ - bonus, !.accuracy = @ - ambush_bonus]

\* The hit chance of the predator's attack: what hit_roll is compared with.
hunt_hit_chance(pred_stats, prey_stats, terrain) ==
    LET mods == TERRAIN_MODIFIERS(terrain)
    IN  (pred_stats.accuracy + ambush_accuracy_bonus(terrain) + mods.accuracy)
        - (prey_stats.evasion + flight_evasion_bonus(pred_stats, prey_stats, terrain)
           + mods.evasion)

\* A plausible slip in the guard of the counter-attack: the prey fights
\* back whether or not the predator's attack hit.
counter_attack_without_hit(kill, prey_stats, hit) ==
    ~kill /\ prey_stats.attack >= 10

\* The guard of the prey's counter-attack, line 87.
counter_attack_due(kill, prey_stats, hit) ==
    ~kill /\ prey_stats.attack >= 10 /\ hit

\* CombatResolver.resolve_predator_hunt on the two CombatStats.  pack_bonus
\* is predator_stats_template.get('pack_bonus', 0), terrain the biome of
\* the predator's cell, hit_roll and counter_roll the two draws.  Returns
\* the tuple (kill, damage), both stats afterwards, and whether the attack
\* hit, whether a counter-attack was resolved and whether a kill record
\* was appended to combat_log; also pred_stats.accuracy and
\* prey_stats.evasion as they stand when calculate_combat_damage is called
\* for the predator's attack.
resolve_predator_hunt(pred_stats, prey_stats, pack_bonus, pack_members, terrain, hit_roll, counter_roll) ==
    LET evasion_bonus == flight_evasion_bonus(pred_stats, prey_stats, terrain)
        bonus == pack_attack_bonus(pack_bonus, pack_members)
        mods == TERRAIN_MODIFIERS(terrain)
        ambush_bonus == ambush_accuracy_bonus(terrain)
        boosted == [pred_stats EXCEPT !.attack = @ + bonus,
                                      !.accuracy = @ + ambush_bonus]
        original_evasion == prey_stats.evasion
        fleeing == [prey_stats EXCEPT !.evasion = @ + evasion_bonus]
        atk == calculate_combat_damage(boosted, fleeing, mods, hit_roll)
        prey_after == [atk.defender EXCEPT !.evasion = original_evasion]
        pred_restored == remove_temporary_bonuses(boosted, bonus, ambush_bonus)
        kill == ~is_alive(prey_after)
        counter == counter_attack_due(kill, prey_after, atk.hit)
        ctr == calculate_combat_damage(prey_after, pred_restored, mods, counter_roll)
    IN  [kill |-> kill, damage |-> atk.damage, hit |-> atk.hit,
         pred |-> IF counter THEN ctr.defender ELSE pred_restored,
         prey |-> prey_after,
         counter |-> counter,
         counter_hit |-> counter /\ ctr.hit,
         logged |-> kill,
         attack_accuracy |-> boosted.accuracy,
         attack_evasion |-> fleeing.evasion]

\* VEGETATION_STATS['food_value'] = 15 HP per unit, i.e. 1 HP per 20/300.
FoodUnitsPerHP == 20

\* CombatResolver.resolve_herbivore_feeding: the amount consumed (1/300)
\* and the stats afterwards.
resolve_herbivore_feeding(stats, vegetation_density) ==
    IF vegetation_density < 15
    THEN [consumed |-> 0, stats |-> stats]
    ELSE LET hunger == stats.max_hp - stats.current_hp
             max_consumption == Min(90, hunger * FoodUnitsPerHP)
             actual_consumption == Min(vegetation_density, max_consumption)
             hp_gained == actual_consumption \div FoodUnitsPerHP
         IN  [consumed |-> actual_consumption, stats |-> heal(stats, hp_gained)]

HazardTypes == {"wildfire", "flood", "blizzard", "earthquake"}

\* HAZARD_STATS.get(hazard_type, {}).get('damage_per_turn', 10)
hazard_damage_per_turn(hazard_type) ==
    CASE hazard_type = "wildfire" -> 15
      [] hazard_type = "flood"    -> 10
      [] hazard_type = "blizzard" -> 8
      [] OTHER                    -> 10

\* HAZARD_STATS.get(hazard_type, {}).get('defense_penetration', 0)
hazard_defense_penetration(hazard_type) ==
    IF hazard_type = "wildfire" THEN 5 ELSE 0

\* creature.combat_stats.defense = old_def, line 155.
restore_defense(stats, old_def) == [stats EXCEPT !.defense = old_def]

\* CombatResolver.resolve_environmental_damage; hazard_intensity is given
\* in tenths.  Returns the damage and the stats afterwards.
resolve_environmental_damage(stats, hazard_type, intensity10) ==
    LET base_damage == hazard_damage_per_turn(hazard_type)
        actual_damage == (base_damage * intensity10) \div 10
        penetration == hazard_defense_penetration(hazard_type)
    IN  IF penetration > 0
        THEN LET old_def == stats.defense
                 lowered == [stats EXCEPT !.defense = Max(0, old_def - penetration)]
                 r == take_damage(lowered, actual_damage)
             IN  [damage |-> r.damage, stats |-> restore_defense(r.stats, old_def)]
        ELSE LET r == take_damage(stats, actual_damage)
             IN  [damage |-> r.damage, stats |-> r.stats]

(***************************************************************************)
(* The combat harness: the resolver and the CombatStats primitives called  *)
(* on stats drawn from the species templates and from the edge cases of    *)
(* the documented scenarios.  A primitive (take_damage, heal,              *)
(* resolve_environmental_damage) may act on the prey first, as metabolism, *)
(* feeding or a disaster does between two hunts; then one hunt is resolved.*)
(***************************************************************************)

\* Bound: the largest pack_members handed to resolve_predator_hunt.
MaxPack == 2

\* PREDATOR_STATS['wolf'] and ['bear'], and the wolf with the attack and
\* accuracy values of the documented scenarios.
HarnessPredators ==
    { CombatStats(40, 40, 18, 5, 9, 10, 90),
      CombatStats(70, 70, 22, 10, 5, 5, 70),
      CombatStats(40, 40, 999, 5, 9, 10, 90),
      CombatStats(40, 40, 0, 5, 9, 10, 0),
      CombatStats(40, 40, 18, 5, 9, 10, 0),
      CombatStats(40, 40, 999, 5, 9, 10, 0) }

\* HERBIVORE_STATS['deer'], ['bison'] and ['frog'] at full and at 1 health,
\* the deer and the bison also dead (0 health) and with evasion 100, and the prey of the guaranteed
\* kill scenario (defense 0, evasion 0, health 10).
HarnessPrey ==
    { CombatStats(30, hp, 5, 3, 8, eva, 100) : hp \in {0, 1, 30}, eva \in {20, 100} }
    \cup { CombatStats(50, hp, 20, 8, 5, eva, 100) : hp \in {0, 1, 50}, eva \in {5, 100} }
    \cup { CombatStats(5, hp, 0, 0, 5, 25, 100) : hp \in {1, 5} }
    \cup { CombatStats(30, 10, 5, 0, 8, 0, 100) }

\* The pack_bonus values of the bear and the wolf templates.
PackBonusValues == {0, 3}

\* The biomes the harness fights on: grassland (no modifier), ocean,
\* forest (cover) and snow (damage +3).
HarnessTerrains == {5, 0, 7, 10}

\* The draws of randint(0, 100) on both sides of a hit chance and at both
\* ends of the range: the resolver reads a draw only through
\* hit_roll >= hit_chance.
RollsAround(hit_chance) == {r \in 0..99 : r \in {0, hit_chance - 1, hit_chance, 99}}

\* The draws of the counter-attack worth telling apart: around its hit
\* chance when the prey is one that strikes back, one value otherwise.
CounterRolls(pred_stats, prey_stats, terrain) ==
    IF prey_stats.attack >= 10
    THEN RollsAround((prey_stats.accuracy + TERRAIN_MODIFIERS(terrain).accuracy)
                     - (pred_stats.evasion + TERRAIN_MODIFIERS(terrain).evasion))
    ELSE {0}

NoCall == [op |-> "none"]
NoRet == [damage |-> 0]

HarnessIdle ==
    /\ h_pred = CombatStats(40, 40, 18, 5, 9, 10, 90)
    /\ h_prey = CombatStats(30, 30, 5, 3, 8, 20, 100)
    /\ h_call = NoCall
    /\ h_ret = NoRet
    /\ h_phase = "done"

HarnessInit ==
    /\ h_pred \in HarnessPredators
    /\ h_prey \in HarnessPrey
    /\ h_call = NoCall
    /\ h_ret = NoRet
    /\ h_phase = "fresh"

\* take_damage(raw_damage) on the prey
CallTakeDamage ==
    /\ h_phase = "fresh"
    /\ \E raw \in {0, 2, 100} :
          LET r == take_damage(h_prey, raw)
          IN  /\ h_prey' = r.stats
              /\ h_call' = [op |-> "take_damage", raw |-> raw, prey |-> h_prey]
              /\ h_ret' = [damage |-> r.damage]
    /\ h_phase' = "used"
    /\ UNCHANGED h_pred
    /\ UNCHANGED simVars

\* heal(amount) on the prey
CallHeal ==
    /\ h_phase = "fresh"
    /\ \E amount \in {0, 3, 100} :
          /\ h_prey' = heal(h_prey, amount)
          /\ h_call' = [op |-> "heal", amount |-> amount, prey |-> h_prey]
          /\ h_ret' = NoRet
    /\ h_phase' = "used"
    /\ UNCHANGED h_pred
    /\ UNCHANGED simVars

\* resolve_environmental_damage(creature, hazard_type, hazard_intensity)
CallEnvironmentalDamage ==
    /\ h_phase = "fresh"
    /\ \E hazard \in HazardTypes, intensity10 \in {0, 5, 10} :
          LET r == resolve_environmental_damage(h_prey, hazard, intensity10)
          IN  /\ h_prey' = r.stats
              /\ h_call' = [op |-> "resolve_environmental_damage",
                            hazard |-> hazard, intensity10 |-> intensity10,
                            prey |-> h_prey]
              /\ h_ret' = [damage |-> r.damage]
    /\ h_phase' = "used"
    /\ UNCHANGED h_pred
    /\ UNCHANGED simVars

\* resolve_predator_hunt(predator, prey, template, prey_template, pack_members)
CallPredatorHunt ==
    /\ h_phase \in {"fresh", "used"}
    /\ \E pack_bonus \in PackBonusValues, pack_members \in 0..MaxPack,
          terrain \in HarnessTerrains :
        \E hit_roll \in RollsAround(hunt_hit_chance(h_pred, h_prey, terrain)) :
          \E counter_roll \in CounterRolls(h_pred, h_prey, terrain) :
            LET r == resolve_predator_hunt(h_pred, h_prey, pack_bonus, pack_members,
                                           terrain, hit_roll, counter_roll)
            IN  /\ h_pred' = r.pred
                /\ h_prey' = r.prey
                /\ h_call' = [op |-> "resolve_predator_hunt", pack_bonus |-> pack_bonus,
                              pack_members |-> pack_members, terrain |-> terrain,
                              hit_roll |-> hit_roll,
                              counter_roll |-> IF r.counter THEN counter_roll ELSE 0,
                              pred |-> h_pred, prey |-> h_prey]
                /\ h_ret' = [kill |-> r.kill, damage |-> r.damage, hit |-> r.hit,
                             counter |-> r.counter, counter_hit |-> r.counter_hit,
                             logged |-> r.logged]
    /\ h_phase' = "done"
    /\ UNCHANGED simVars

CombatNext ==
    \/ CallTakeDamage
    \/ CallHeal
    \/ CallEnvironmentalDamage
    \/ CallPredatorHunt

(***************************************************************************)
(* The world: a toroidal grid with a biome per cell                        *)
(***************************************************************************)

\* Bounds: the size of the grid (world_generator.width / height).  A scan
\* of radius 3 meets every cell at most once from width and height 7 on.
Width == 7
Height == 7

Cells == {<<x, y>> : x \in 0..(Width - 1), y \in 0..(Height - 1)}

\* world.biomes[y, x]: grassland (5), with forest (7) in column 1 and one
\* cell of ocean (0).
BiomeAt(x, y) ==
    IF x = 1 THEN 7 ELSE IF x = 3 /\ y = 1 THEN 0 ELSE 5

\* A plausible slip in the wrap: a remainder that takes the sign of the
\* dividend, as in languages where % truncates toward zero.
WrapTruncating(x, y, dx, dy) ==
    <<IF x + dx < 0 THEN -((-(x + dx)) % Width) ELSE (x + dx) % Width,
      IF y + dy < 0 THEN -((-(y + dy)) % Height) ELSE (y + dy) % Height>>

\* The wrap of Animal.move / Predator.move and of every scan:
\* (x + dx) % width, (y + dy) % height; Python's % takes the sign of the
\* divisor, so the result is in 0..size-1 for every integer.
Wrap(x, y, dx, dy) == <<(x + dx) % Width, (y + dy) % Height>>

(***************************************************************************)
(* srpg_stats.py: the species templates of the species the model spawns    *)
(***************************************************************************)

\* The keys of HERBIVORE_STATS and of PREDATOR_STATS
HerbivoreSpecies ==
    {"deer", "bison", "caribou", "musk_ox", "gazelle", "elephant",
     "rabbit", "iguana", "frog"}
PredatorSpecies ==
    {"wolf", "lion", "bear", "polar_bear", "leopard", "snow_leopard",
     "arctic_fox", "red_fox", "boar", "jackal", "crocodile", "snake",
     "giant_toad"}

\* HERBIVORE_STATS[species] / PREDATOR_STATS[species].  min_temp and
\* max_temp are in 1/20; pack_bonus is template.get('pack_bonus', 0).
Template(species) ==
    CASE species = "deer" ->
           [stats |-> CombatStats(30, 30, 5, 3, 8, 20, 100),
            movement_range |-> 3, can_swim |-> FALSE,
            cold_blooded |-> FALSE, min_temp |-> 0, max_temp |-> 20, max_age |-> 60,
            reproduction_threshold |-> 15, offspring_count |-> 2, pack_bonus |-> 0]
      [] species = "bison" ->
           [stats |-> CombatStats(50, 50, 20, 8, 5, 5, 100),
            movement_range |-> 2, can_swim |-> FALSE,
            cold_blooded |-> FALSE, min_temp |-> 0, max_temp |-> 20, max_age |-> 80,
            reproduction_threshold |-> 25, offspring_count |-> 1, pack_bonus |-> 0]
      [] species = "gazelle" ->
           [stats |-> CombatStats(30, 30, 4, 2, 10, 35, 100),
            movement_range |-> 4, can_swim |-> FALSE,
            cold_blooded |-> FALSE, min_temp |-> 8, max_temp |-> 20, max_age |-> 50,
            reproduction_threshold |-> 12, offspring_count |-> 2, pack_bonus |-> 0]
      [] species = "wolf" ->
           [stats |-> CombatStats(40, 40, 18, 5, 9, 10, 90),
            movement_range |-> 3, can_swim |-> FALSE,
            cold_blooded |-> FALSE, min_temp |-> 0, max_temp |-> 20, max_age |-> 60,
            reproduction_threshold |-> 25, offspring_count |-> 3, pack_bonus |-> 3]
      [] species = "bear" ->
           [stats |-> CombatStats(70, 70, 22, 10, 5, 5, 70),
            movement_range |-> 2, can_swim |-> FALSE,
            cold_blooded |-> FALSE, min_temp |-> 0, max_temp |-> 20, max_age |-> 100,
            reproduction_threshold |-> 40, offspring_count |-> 2, pack_bonus |-> 0]
      [] species = "caribou" ->
           [stats |-> CombatStats(35, 35, 6, 4, 7, 15, 100),
            movement_range |-> 4, can_swim |-> FALSE,
            cold_blooded |-> FALSE, min_temp |-> 0, max_temp |-> 20, max_age |-> 60,
            reproduction_threshold |-> 20, offspring_count |-> 1, pack_bonus |-> 0]
      [] species = "musk_ox" ->
           [stats |-> CombatStats(80, 80, 20, 18, 4, 0, 100),
            movement_range |-> 2, can_swim |-> FALSE,
            cold_blooded |-> FALSE, min_temp |-> 0, max_temp |-> 12, max_age |-> 90,
            reproduction_threshold |-> 30, offspring_count |-> 1, pack_bonus |-> 0]
      [] species = "elephant" ->
           [stats |-> CombatStats(100, 100, 30, 15, 4, 0, 100),
            movement_range |-> 2, can_swim |-> FALSE,
            cold_blooded |-> FALSE, min_temp |-> 8, max_temp |-> 20, max_age |-> 240,
            reproduction_threshold |-> 50, offspring_count |-> 1, pack_bonus |-> 0]
      [] species = "rabbit" ->
           [stats |-> CombatStats(10, 10, 1, 1, 9, 45, 100),
            movement_range |-> 3, can_swim |-> FALSE,
            cold_blooded |-> FALSE, min_temp |-> 0, max_temp |-> 20, max_age |-> 20,
            reproduction_threshold |-> 8, offspring_count |-> 3, pack_bonus |-> 0]
      [] species = "iguana" ->
           [stats |-> CombatStats(15, 15, 3, 2, 6, 15, 100),
            movement_range |-> 2, can_swim |-> FALSE,
            cold_blooded |-> TRUE, min_temp |-> 6, max_temp |-> 20, max_age |-> 80,
            reproduction_threshold |-> 8, offspring_count |-> 3, pack_bonus |-> 0]
      [] species = "frog" ->
           [stats |-> CombatStats(5, 5, 0, 0, 5, 25, 100),
            movement_range |-> 2, can_swim |-> TRUE,
            cold_blooded |-> TRUE, min_temp |-> 2, max_temp |-> 20, max_age |-> 15,
            reproduction_threshold |-> 4, offspring_count |-> 3, pack_bonus |-> 0]
      [] species = "lion" ->
           [stats |-> CombatStats(60, 60, 25, 7, 8, 8, 85),
            movement_range |-> 3, can_swim |-> FALSE,
            cold_blooded |-> FALSE, min_temp |-> 10, max_temp |-> 20, max_age |-> 60,
            reproduction_threshold |-> 35, offspring_count |-> 2, pack_bonus |-> 4]
      [] species = "polar_bear" ->
           [stats |-> CombatStats(80, 80, 28, 12, 5, 5, 70),
            movement_range |-> 3, can_swim |-> TRUE,
            cold_blooded |-> FALSE, min_temp |-> 0, max_temp |-> 10, max_age |-> 100,
            reproduction_threshold |-> 50, offspring_count |-> 2, pack_bonus |-> 0]
      [] species = "leopard" ->
           [stats |-> CombatStats(45, 45, 20, 4, 10, 20, 95),
            movement_range |-> 3, can_swim |-> FALSE,
            cold_blooded |-> FALSE, min_temp |-> 8, max_temp |-> 20, max_age |-> 60,
            reproduction_threshold |-> 28, offspring_count |-> 2, pack_bonus |-> 0]
      [] species = "snow_leopard" ->
           [stats |-> CombatStats(45, 45, 20, 5, 9, 25, 90),
            movement_range |-> 3, can_swim |-> FALSE,
            cold_blooded |-> FALSE, min_temp |-> 0, max_temp |-> 12, max_age |-> 60,
            reproduction_threshold |-> 28, offspring_count |-> 2, pack_bonus |-> 0]
      [] species = "arctic_fox" ->
           [stats |-> CombatStats(20, 20, 10, 3, 9, 25, 75),
            movement_range |-> 3, can_swim |-> FALSE,
            cold_blooded |-> FALSE, min_temp |-> 0, max_temp |-> 20, max_age |-> 30,
            reproduction_threshold |-> 12, offspring_count |-> 4, pack_bonus |-> 0]
      [] species = "red_fox" ->
           [stats |-> CombatStats(22, 22, 10, 3, 9, 25, 80),
            movement_range |-> 3, can_swim |-> FALSE,
            cold_blooded |-> FALSE, min_temp |-> 0, max_temp |-> 20, max_age |-> 30,
            reproduction_threshold |-> 14, offspring_count |-> 3, pack_bonus |-> 0]
      [] species = "boar" ->
           [stats |-> CombatStats(45, 45, 16, 6, 6, 5, 75),
            movement_range |-> 2, can_swim |-> FALSE,
            cold_blooded |-> FALSE, min_temp |-> 0, max_temp |-> 20, max_age |-> 80,
            reproduction_threshold |-> 30, offspring_count |-> 4, pack_bonus |-> 0]
      [] species = "jackal" ->
           [stats |-> CombatStats(25, 25, 12, 3, 9, 20, 80),
            movement_range |-> 4, can_swim |-> FALSE,
            cold_blooded |-> FALSE, min_temp |-> 8, max_temp |-> 20, max_age |-> 40,
            reproduction_threshold |-> 15, offspring_count |-> 3, pack_bonus |-> 2]
      [] species = "crocodile" ->
           [stats |-> CombatStats(70, 70, 28, 10, 4, 5, 85),
            movement_range |-> 2, can_swim |-> TRUE,
            cold_blooded |-> TRUE, min_temp |-> 6, max_temp |-> 20, max_age |-> 200,
            reproduction_threshold |-> 40, offspring_count |-> 10, pack_bonus |-> 0]
      [] species = "snake" ->
           [stats |-> CombatStats(20, 20, 18, 2, 6, 30, 90),
            movement_range |-> 2, can_swim |-> FALSE,
            cold_blooded |-> TRUE, min_temp |-> 4, max_temp |-> 20, max_age |-> 40,
            reproduction_threshold |-> 12, offspring_count |-> 3, pack_bonus |-> 0]
      [] species = "giant_toad" ->
           [stats |-> CombatStats(15, 15, 8, 2, 4, 10, 80),
            movement_range |-> 2, can_swim |-> TRUE,
            cold_blooded |-> TRUE, min_temp |-> 2, max_temp |-> 20, max_age |-> 30,
            reproduction_threshold |-> 8, offspring_count |-> 4, pack_bonus |-> 0]

\* create_stats_from_template: a fresh CombatStats with the template's values.
create_stats_from_template(template) ==
    CombatStats(template.stats.max_hp, template.stats.current_hp,
                template.stats.attack, template.stats.defense,
                template.stats.speed, template.stats.evasion,
                template.stats.accuracy)

\* Animal.__init__ / Predator.__init__
NewAgent(kind, x, y, species_name) ==
    [kind |-> kind, x |-> x, y |-> y, species |-> species_name,
     combat_stats |-> create_stats_from_template(Template(species_name)),
     age |-> 0, reproductive_cooldown |-> 0, hunt_cooldown |-> 0,
     cause_of_death |-> "none"]

\* Animal.is_alive / Predator.is_alive
Alive(a) == is_alive(a.combat_stats)

\* int(fraction * max_hp) for a fraction given in 1/1000
HpFraction(a, permille) == (permille * a.combat_stats.max_hp) \div 1000

\* Animal.consume_energy / Predator.consume_energy, amount in 1/1000
consume_energy(a, permille) ==
    LET damage == HpFraction(a, permille)
    IN  IF damage > 0
        THEN [a EXCEPT !.combat_stats = take_damage(a.combat_stats, damage).stats]
        ELSE a

\* Animal.gain_energy / Predator.gain_energy, amount in 1/1000
gain_energy(a, permille) ==
    [a EXCEPT !.combat_stats = heal(a.combat_stats, HpFraction(a, permille))]

\* The energy setter: current_hp = int(max(0, min(1.0, value)) * max_hp),
\* value in 1/1000.
set_energy(a, permille) ==
    [a EXCEPT !.combat_stats.current_hp = HpFraction(a, Max(0, Min(1000, permille)))]

(***************************************************************************)
(* Spatial index and scans                                                 *)
(***************************************************************************)

\* A plausible slip in the map build: an agent that is not alive is
\* skipped.
BuildMapLiving(list, ag) ==
    LET living == SelectSeq(list, LAMBDA id : ag[id].combat_stats.current_hp > 0)
    IN  [i \in 1..Len(living) |->
            [id |-> living[i], x |-> ag[living[i]].x, y |-> ag[living[i]].y]]

\* The spatial map build of AnimalSystem.update / PredatorSystem.update:
\* one pass over the list, each agent appended to the list of its cell.
\* The dict is kept as its entries in insertion order, each an agent with
\* the cell it was filed under.
BuildMap(list, ag) ==
    [i \in 1..Len(list) |-> [id |-> list[i], x |-> ag[list[i]].x, y |-> ag[list[i]].y]]

\* m.get(c, []): the agents filed under cell c, in order
CellList(m, c) ==
    LET here == SelectSeq(m, LAMBDA e : <<e.x, e.y>> = c)
    IN  [i \in 1..Len(here) |-> here[i].id]

\* "c in m": cell c is a key of the map
HasKey(m, c) == \E i \in 1..Len(m) : <<m[i].x, m[i].y>> = c

\* The i-th offset <<dx, dy>> of "for dy in range(-r, r+1): for dx in
\* range(-r, r+1)", i in 1..ScanCount(r).
ScanCount(r) == (2 * r + 1) * (2 * r + 1)
ScanOffset(i, r) == <<((i - 1) % (2 * r + 1)) - r, ((i - 1) \div (2 * r + 1)) - r>>

\* The cell the i-th offset of a scan around (x, y) reads.
ScanCell(x, y, i, r) == Wrap(x, y, ScanOffset(i, r)[1], ScanOffset(i, r)[2])

\* dx*dx + dy*dy of the i-th offset
ScanDist2(i, r) ==
    ScanOffset(i, r)[1] * ScanOffset(i, r)[1] + ScanOffset(i, r)[2] * ScanOffset(i, r)[2]

\* The index in scan order of offset (dx, dy) of a scan of radius r
ScanIndex(dx, dy, r) == (dy + r) * (2 * r + 1) + (dx + r) + 1

\* The steps dv in -r..r of a scan from coordinate `from` that land, after
\* the wrap on a side of length `size`, on coordinate `to`.
Landing(from, r, to, size) == {dv \in -r..r : (from + dv) % size = to}

\* The scan indices of the offsets of a scan of radius r around (x, y)
\* that land on a cell that is a key of map m.
KeyedOffsets(m, x, y, r) ==
    UNION { {ScanIndex(dx, dy, r) : dx \in Landing(x, r, m[k].x, Width),
                                     dy \in Landing(y, r, m[k].y, Height)} :
            k \in 1..Len(m) }

\* The first index of cand, in scan order, with the least squared distance
FirstClosest(cand, r) ==
    CHOOSE i \in cand :
        \A j \in cand : ScanDist2(i, r) < ScanDist2(j, r)
                         \/ (ScanDist2(i, r) = ScanDist2(j, r) /\ i <= j)

\* The same-species agents other than `id` a radius-3 scan of map m around
\* (x, y) meets, counted once per visit (lines 359-367 and 549-558 of
\* predator_system.py).
SameSpeciesNeighbours(m, ag, id, x, y) ==
    Cardinality(UNION { {j} \X Landing(x, 3, m[j].x, Width)
                            \X Landing(y, 3, m[j].y, Height) :
                        j \in {k \in 1..Len(m) :
                                  /\ m[k].id # id
                                  /\ ag[m[k].id].species = ag[id].species} })

(***************************************************************************)
(* animal_system.py / predator_system.py: the aging phase of one agent     *)
(***************************************************************************)

Causes == {"unknown", "old_age", "cold", "heat", "starvation", "predation",
           "disease_herbivore", "disease_predator", "disease_all",
           "wildfire", "flood", "blizzard"}

\* A plausible slip in the cause bookkeeping: the cause is written without
\* looking at the agent's health or at a cause already there.
record_cause_always(a, cause) == [a EXCEPT !.cause_of_death = cause]

\* "if not animal.is_alive() and animal.cause_of_death is None:
\*      animal.cause_of_death = cause"
RecordCause(a, cause) ==
    IF ~Alive(a) /\ a.cause_of_death = "none"
    THEN [a EXCEPT !.cause_of_death = cause] ELSE a

\* Cold stress then heat stress (animal_system.py 181-204; the same code
\* is predator_system.py 195-216).
TemperatureStress(a, local_temp) ==
    LET env == Template(a.species)
        cold == IF env.cold_blooded THEN (env.min_temp - local_temp) * 2
                ELSE env.min_temp - local_temp
        a1 == IF local_temp < env.min_temp /\ cold > 0
              THEN RecordCause([a EXCEPT !.combat_stats =
                                   take_damage(a.combat_stats, cold).stats], "cold")
              ELSE a
        hot == local_temp - env.max_temp
    IN  IF local_temp > env.max_temp /\ hot > 0
        THEN RecordCause([a1 EXCEPT !.combat_stats =
                              take_damage(a1.combat_stats, hot).stats], "heat")
        ELSE a1

\* "if animal.is_alive(): take_damage(metabolism_cost); ... 'starvation'"
Metabolism(a, metabolism_cost) ==
    IF Alive(a)
    THEN RecordCause([a EXCEPT !.combat_stats =
                          take_damage(a.combat_stats, metabolism_cost).stats],
                     "starvation")
    ELSE a

\* A plausible slip in the aging step: the age is left as it was.
AgedNever(a) == a

\* "animal.age += 1" / "predator.age += 1"
Aged(a) == [a EXCEPT !.age = @ + 1]

\* metabolism_cost of the herbivore's iteration: int(1 * 0.6) = 0, one more
\* when the draw random() < 0.6 says so, and one more past age 40 (the elif
\* of the old-age check).
HerbivoreMetabolismCost(aged, fraction_roll) ==
    LET base_cost == IF fraction_roll THEN 1 ELSE 0
    IN  IF ~(aged.age > Template(aged.species).max_age) /\ aged.age > 40
        THEN base_cost + 1 ELSE base_cost

\* The body of the "Age and metabolism" loop of AnimalSystem.update for one
\* living herbivore.  fraction_roll: the draw random() < 0.6 that rounds the
\* cost 1 * 0.6 up to 1; old_age_roll: the draw random() < death_chance.
AgeHerbivore(a, fraction_roll, old_age_roll, local_temp) ==
    LET env == Template(a.species)
        aged == Aged(a)
    IN  IF aged.age > env.max_age /\ old_age_roll
        THEN [aged EXCEPT !.combat_stats.current_hp = 0,
                          !.cause_of_death = "old_age"]
        ELSE LET stressed == TemperatureStress(aged, local_temp)
                 fed == Metabolism(stressed,
                                   HerbivoreMetabolismCost(aged, fraction_roll))
             IN  [fed EXCEPT !.reproductive_cooldown = IF @ > 0 THEN @ - 1 ELSE @]

\* The old-age roll random() < 0.05 + over_age * 0.02 can come out either
\* way while the chance is below 1, and only one way from over_age = 48 on.
OldAgeRolls(a) ==
    LET over_age == (a.age + 1) - Template(a.species).max_age
    IN  IF over_age <= 0 THEN {FALSE}
        ELSE IF 5 + over_age * 2 >= 100 THEN {TRUE} ELSE BOOLEAN

(***************************************************************************)
(* animal_system.py: the behaviour phase of one herbivore                  *)
(***************************************************************************)

WaterBiomes == {0, 1}

\* The offsets the model follows a herbivore's move through.
MoveOffsets == {<<1, 0>>, <<0, 1>>}

\* Where _move_animal can put the animal: it stays, or moves by the best
\* scored offset (dx, dy) of the scan, which is one of the offsets that
\* pass the scan's filters (not (0, 0), no water for a non-swimmer,
\* distance within movement_range).  The scores are floats of habitat,
\* food and predator distance; any offset that passes can be the best one.
HerbivoreMoveTargets(a) ==
    LET mv == Template(a.species)
        r == mv.movement_range
    IN  {<<a.x, a.y>>} \cup
        { Wrap(a.x, a.y, t[1], t[2]) : t \in
            { o \in MoveOffsets :
                /\ ~(o[1] = 0 /\ o[2] = 0)
                /\ (mv.can_swim
                    \/ BiomeAt(Wrap(a.x, a.y, o[1], o[2])[1],
                               Wrap(a.x, a.y, o[1], o[2])[2]) \notin WaterBiomes)
                /\ o[1] * o[1] + o[2] * o[2] <= r * r } }

\* Animal.can_reproduce
HerbivoreCanReproduce(a) ==
    /\ a.combat_stats.current_hp >= Template(a.species).reproduction_threshold
    /\ a.reproductive_cooldown = 0
    /\ a.age > 8

\* The mate search of _reproduce_animal / _reproduce_predator: an agent of
\* the same species, other than the parent, in the spatial map within 3
\* cells on each axis.
MateNearby(m, ag, id, x, y) == SameSpeciesNeighbours(m, ag, id, x, y) > 0

\* A plausible slip in the offspring's health: int(0.5) * max_hp, the
\* truncation taken before the product.
OffspringTruncatedFirst(parent) ==
    LET baby == NewAgent(parent.kind, parent.x, parent.y, parent.species)
    IN  [baby EXCEPT !.combat_stats.current_hp = 0 * baby.combat_stats.max_hp]

\* The offspring of _reproduce_animal / _reproduce_predator: Animal(x, y,
\* species) with current_hp = int(max_hp * 0.5).
Offspring(parent) ==
    LET baby == NewAgent(parent.kind, parent.x, parent.y, parent.species)
    IN  [baby EXCEPT !.combat_stats.current_hp = baby.combat_stats.max_hp \div 2]

\* A plausible slip in the reproduction cost: the factor 0.3 is left out
\* and the raw cost is the whole of max_hp.
PayReproductionInFull(a, cooldown) ==
    [a EXCEPT !.combat_stats = take_damage(a.combat_stats, HpFraction(a, 1000)).stats,
              !.reproductive_cooldown = cooldown]

\* The reproduction cost and cooldown paid by the parent:
\* take_damage(int(max_hp * 0.3)), then the cooldown.
PayReproduction(a, cooldown) ==
    [a EXCEPT !.combat_stats = take_damage(a.combat_stats, HpFraction(a, 300)).stats,
              !.reproductive_cooldown = cooldown]

\* Bound: the number of agents that may ever be created.
MaxAgents == 6

\* k copies of the record b
Copies(b, k) == [i \in 1..k |-> b]

\* The ids the next k agents get
NewIds(ag, k) == [i \in 1..k |-> Len(ag) + i]

(***************************************************************************)
(* The death cleanup of AnimalSystem.update / PredatorSystem.update        *)
(***************************************************************************)

\* A plausible slip in the cleanup: an agent is kept only above 1 health.
KeptAboveOne(list, ag) == SelectSeq(list, LAMBDA id : ag[id].combat_stats.current_hp > 1)

\* "[a for a in self.herbivores if a.is_alive()]"
Kept(list, ag) == SelectSeq(list, LAMBDA id : Alive(ag[id]))

\* "dead_animals = [a for a in self.herbivores if not a.is_alive()]"
Dead(list, ag) == SelectSeq(list, LAMBDA id : ~Alive(ag[id]))

\* A plausible slip in the population tracking: the species filter is left
\* out and every series gets the length of the whole list.
population_count_all_species(list, ag, species) == Len(list)

\* "count = sum(1 for a in self.herbivores if a.species == species_name)"
population_count(list, ag, species) ==
    Cardinality({i \in 1..Len(list) : ag[list[i]].species = species})

\* "cause = a.cause_of_death if a.cause_of_death else 'unknown'"
LoggedCause(a) == IF a.cause_of_death = "none" THEN "unknown" ELSE a.cause_of_death

\* self.recent_deaths after the loop over the dead: cause -> count
Tally(dead, ag) ==
    [c \in Causes |-> Cardinality({i \in 1..Len(dead) : LoggedCause(ag[dead[i]]) = c})]

\* The 'death' callbacks of the loop, appended to each dead agent's record.
LogDeaths(log, dead, ag) ==
    [id \in DOMAIN log |->
        IF \E i \in 1..Len(dead) : dead[i] = id
        THEN log[id] \o [i \in 1..Cardinality({j \in 1..Len(dead) : dead[j] = id})
                            |-> LoggedCause(ag[id])]
        ELSE log[id]]

(***************************************************************************)
(* predator_system.py: the aging phase of one predator                     *)
(***************************************************************************)

\* The old-age branch of the aging loops: health to 0, cause 'old_age',
\* then "continue".
DieOfOldAge(a) ==
    [a EXCEPT !.combat_stats.current_hp = 0, !.cause_of_death = "old_age"]

\* "Bears can eat vegetation as backup", predator_system.py 230-236, on the
\* predator and the density veg of its cell: the predator and the density
\* afterwards.  hp_percentage() < 0.4 is 10 * hp < 4 * max_hp; a density of
\* 0.1 is 30; gain_energy(consumption * 0.2) heals
\* int(consumption * 0.2 * max_hp), consumption in 1/300.
BearBackup(a, veg) ==
    IF a.species = "bear"
       /\ 10 * a.combat_stats.current_hp < 4 * a.combat_stats.max_hp
       /\ veg > 30
    THEN LET consumption == Min(30, veg)
         IN  [agent |-> [a EXCEPT !.combat_stats =
                            heal(a.combat_stats,
                                 (consumption * 2 * a.combat_stats.max_hp) \div 3000)],
              veg |-> veg - consumption]
    ELSE [agent |-> a, veg |-> veg]

\* Whether the aging loop takes its old-age branch (health to 0, then
\* "continue") for agent a, not yet aged, under the given roll.
OldAgeDeath(a, old_age_roll) ==
    Aged(a).age > Template(a.species).max_age /\ old_age_roll

\* metabolism_cost of the predator's iteration: 1, one more past age 40
\* (the elif of the old-age check), and (local_density - 2) * 2 more when
\* more than two predators stand on the cell.
PredatorMetabolismCost(aged, local_density) ==
    LET legacy == IF ~(aged.age > Template(aged.species).max_age) /\ aged.age > 40
                  THEN 2 ELSE 1
    IN  IF local_density > 2 THEN legacy + (local_density - 2) * 2 ELSE legacy

\* The body of the "Age and metabolism" loop of PredatorSystem.update for
\* one living predator, up to and including the metabolism damage (lines
\* 175-228); local_density is the length of the spatial map's list at the
\* predator's cell.
AgePredator(a, old_age_roll, local_temp, local_density) ==
    LET aged == Aged(a)
    IN  IF OldAgeDeath(a, old_age_roll)
        THEN DieOfOldAge(aged)
        ELSE Metabolism(TemperatureStress(aged, local_temp),
                        PredatorMetabolismCost(aged, local_density))

\* The rest of the loop body (lines 230-242): the bear's vegetation backup
\* on the density veg of the predator's cell, then the cooldowns.
FinishAgingPredator(a, veg) ==
    LET b == BearBackup(a, veg)
    IN  [agent |-> [b.agent EXCEPT
                       !.reproductive_cooldown = IF @ > 0 THEN @ - 1 ELSE @,
                       !.hunt_cooldown = IF @ > 0 THEN @ - 1 ELSE @],
         veg |-> b.veg]

(***************************************************************************)
(* predator_system.py: the behaviour phase of one predator                 *)
(***************************************************************************)

\* movement_stats.terrain_preferences.get(biome, 0.3), in tenths
terrain_preference(species, biome) ==
    CASE species = "wolf" -> IF biome \in {5, 7, 8} THEN 10 ELSE 3
      [] species = "bear" -> IF biome \in {7, 8} THEN 10 ELSE 3
      [] OTHER -> 3

\* hp_percentage() < 0.7
IsHungry(a) == 10 * a.combat_stats.current_hp < 7 * a.combat_stats.max_hp

\* biome_pref >= 0.6
GoodHabitat(a) == terrain_preference(a.species, BiomeAt(a.x, a.y)) >= 6

DetectionRange == 12

\* "Look for closest prey": the scan index of the first offset with the
\* least squared distance whose cell is a key of the prey map; 0 if none.
ClosestPrey(pm, x, y) ==
    LET cand == KeyedOffsets(pm, x, y, DetectionRange)
    IN  IF cand = {} THEN 0 ELSE FirstClosest(cand, DetectionRange)

Abs(t) == IF t >= 0 THEN t ELSE -t
Sign(t) == IF t > 0 THEN 1 ELSE IF t < 0 THEN -1 ELSE 0

\* int(t * min(1.0, r / sqrt(d2))): t itself when r >= sqrt(d2), else t
\* scaled and truncated toward zero.
TruncScaled(t, r, d2) ==
    IF r * r >= d2 THEN t
    ELSE LET k == CHOOSE k \in 0..Abs(t) :
                     /\ k * k * d2 <= t * t * r * r
                     /\ (k + 1) * (k + 1) * d2 > t * t * r * r
         IN  IF t >= 0 THEN k ELSE -k

\* The step (move_dx, move_dy) toward the prey found at scan index i.
ApproachOffset(a, i) ==
    LET o == ScanOffset(i, DetectionRange)
        d2 == ScanDist2(i, DetectionRange)
        r == Template(a.species).movement_range
        mx == TruncScaled(o[1], r, d2)
        my == TruncScaled(o[2], r, d2)
    IN  IF mx = 0 /\ my = 0 THEN <<Sign(o[1]), Sign(o[2])>> ELSE <<mx, my>>

search_directions == <<<<-1, 0>>, <<1, 0>>, <<0, -1>>, <<0, 1>>>>

\* "HABITAT SEEKING": the first of the four directions whose cell at
\* move_range has the best preference, water excluded; <<0, 0>> if none.
HabitatOffset(a) ==
    LET mv == Template(a.species)
        r == mv.movement_range
        dest(k) == Wrap(a.x, a.y, search_directions[k][1] * r,
                        search_directions[k][2] * r)
        ok(k) == mv.can_swim \/ BiomeAt(dest(k)[1], dest(k)[2]) \notin WaterBiomes
        pref(k) == terrain_preference(a.species, BiomeAt(dest(k)[1], dest(k)[2]))
        cand == {k \in 1..4 : ok(k)}
    IN  IF cand = {} THEN <<0, 0>>
        ELSE LET best == CHOOSE k \in cand :
                            \A j \in cand : pref(k) > pref(j)
                                            \/ (pref(k) = pref(j) /\ k <= j)
             IN  <<search_directions[best][1] * r, search_directions[best][2] * r>>

\* np.random.choice([-1, 0, 1]) of the lazy wander: the draws followed
WanderSteps == {0, 1}

\* Where _move_predator can put the predator, given the prey map pm.
PredatorMoveTargets(a, pm) ==
    LET mv == Template(a.species)
        here == <<a.x, a.y>>
        dry(c) == mv.can_swim \/ BiomeAt(c[1], c[2]) \notin WaterBiomes
    IN  IF ~IsHungry(a) /\ GoodHabitat(a)
        THEN {here} \cup {Wrap(a.x, a.y, dx, dy) : dx \in WanderSteps, dy \in WanderSteps}
        ELSE LET i == IF IsHungry(a) THEN ClosestPrey(pm, a.x, a.y) ELSE 0
             IN  IF i # 0 /\ ScanDist2(i, DetectionRange) > 0
                 THEN LET o == ApproachOffset(a, i)
                          c == Wrap(a.x, a.y, o[1], o[2])
                      IN  IF dry(c) THEN {c} ELSE {here}
                 ELSE LET h == HabitatOffset(a)
                          valid == {c \in {Wrap(a.x, a.y, dx, dy) :
                                              dx \in {-1, 0, 1}, dy \in {-1, 0, 1}} :
                                       c # here /\ dry(c)}
                      IN  IF h # <<0, 0>> THEN {Wrap(a.x, a.y, h[1], h[2])}
                          ELSE IF valid = {} THEN {here} ELSE valid

\* A plausible slip in can_hunt: the cooldown is not looked at.
can_hunt_while_resting(a) == a.combat_stats.current_hp > 5

\* Predator.can_hunt
can_hunt(a) == a.hunt_cooldown = 0 /\ a.combat_stats.current_hp > 5

\* A plausible slip in can_reproduce: the health threshold is not checked.
can_reproduce_any_health(a) ==
    /\ a.reproductive_cooldown = 0
    /\ a.age > 10

\* Predator.can_reproduce
PredatorCanReproduce(a) ==
    /\ a.combat_stats.current_hp >= Template(a.species).reproduction_threshold
    /\ a.reproductive_cooldown = 0
    /\ a.age > 10

HuntingRange == 2

\* The target of _attempt_hunt: potential_prey is filled in scan order from
\* the prey map's cells within hunting_range, then sorted (stably) by
\* distance; the target is its first entry.  0 if potential_prey is empty.
HuntTarget(pm, x, y) ==
    LET cand == {i \in KeyedOffsets(pm, x, y, HuntingRange) :
                    ScanDist2(i, HuntingRange) <= HuntingRange * HuntingRange}
    IN  IF cand = {} THEN 0
        ELSE CellList(pm, ScanCell(x, y, FirstClosest(cand, HuntingRange),
                                   HuntingRange))[1]

\* pack_members of _attempt_hunt
PackMembers(sm, ag, id) ==
    IF Template(ag[id].species).pack_bonus > 0
    THEN SameSpeciesNeighbours(sm, ag, id, ag[id].x, ag[id].y)
    ELSE 0

\* The herbivore branch of _attempt_hunt once the target is chosen: the
\* resolver's call and what the predator system does with its result.
attempt_hunt(ag, id, target, pack_members, hit_roll, counter_roll) ==
    LET p == ag[id]
        t == ag[target]
        r == resolve_predator_hunt(p.combat_stats, t.combat_stats,
                                   Template(p.species).pack_bonus, pack_members,
                                   BiomeAt(p.x, p.y), hit_roll, counter_roll)
        p1 == [p EXCEPT !.combat_stats = r.pred]
        t1 == [t EXCEPT !.combat_stats = r.prey]
        p2 == IF r.kill
              THEN [p1 EXCEPT !.combat_stats = heal(r.pred, HpFraction(p1, 400)),
                              !.hunt_cooldown = 2]
              ELSE IF r.damage > 0 THEN consume_energy(p1, 20)
              ELSE consume_energy(p1, 50)
        t2 == IF r.kill THEN [t1 EXCEPT !.cause_of_death = "predation"] ELSE t1
    IN  [agents |-> [ag EXCEPT ![id] = p2, ![target] = t2],
         kill |-> r.kill, damage |-> r.damage, hit |-> r.hit]

\* A plausible slip in the kill branch: the predator system takes the prey
\* it killed out of the herbivore system's list itself.
prey_list_without_kill(list, ag, target) ==
    SelectSeq(list, LAMBDA h : ~(h = target /\ ag[h].combat_stats.current_hp = 0))

\* The herbivore system's list after _attempt_hunt: the list as it was.  A
\* kill is the target's health and cause_of_death (lines 371-385), never a
\* removal from self.herbivores.herbivores.
prey_list_after_hunt(list, ag, target) == list

\* The draw of the predator's attack on target (0: no hunt), one value
\* per outcome.
HuntRolls(target) == IF target = 0 THEN {0} ELSE {0, 99}

\* The draw of the counter-attack, one value per outcome when the target
\* is one that strikes back.
HuntCounterRolls(ag, target) ==
    IF target # 0 /\ ag[target].combat_stats.attack >= 10 THEN {0, 99} ELSE {0}

\* The survival draws of one predator reproduction: "litter_size = 2 if
\* species_data.get('pack_bonus', 0) > 0 else 1", one draw for each.
predator_litter_size(species) ==
    IF Template(species).pack_bonus > 0 THEN 2 ELSE 1

\* The litter of _reproduce_predator: 0 when more than 3 neighbours or no
\* mate, else up to litter_size offspring (each survives or not).
PredatorLitters(sm, ag, id) ==
    LET neighbors == SameSpeciesNeighbours(sm, ag, id, ag[id].x, ag[id].y)
    IN  IF neighbors > 3 \/ neighbors = 0 THEN {}
        ELSE 0..Min(predator_litter_size(ag[id].species), MaxAgents - Len(ag))

\* The survival draws of one herbivore reproduction:
\* "for _ in range(species_data.get('offspring_count', 1))".
herbivore_litter_size(species) == Template(species).offspring_count

\* The litter of _reproduce_animal.
HerbivoreLitters(sm, ag, id, a) ==
    IF MateNearby(sm, ag, id, a.x, a.y)
    THEN 0..Min(herbivore_litter_size(a.species), MaxAgents - Len(ag))
    ELSE {}

(***************************************************************************)
(* events_ecology.py: diseases and disasters                               *)
(***************************************************************************)

DiseaseTypes == {"herbivore", "predator", "all"}
DisasterTypes == {"wildfire", "flood", "blizzard"}

\* Disease(x, y, type, virulence, duration): radius 5, nobody infected.
\* virulence is kept as the energy an infection costs, virulence * 0.3,
\* in 1/1000.
Disease(x, y, type, virulence, duration) ==
    [x |-> x, y |-> y, type |-> type, virulence |-> virulence,
     duration |-> duration, radius |-> 5, infected |-> {}]

\* NaturalDisaster(x, y, type, intensity, duration), intensity in 1/10,
\* radius drawn in 8..19.
NaturalDisaster(x, y, type, intensity, duration, radius) ==
    [x |-> x, y |-> y, type |-> type, intensity |-> intensity,
     duration |-> duration, radius |-> radius]

\* The ids of a list, as a set
Members(list) == {list[i] : i \in 1..Len(list)}

\* The square of "dist = np.sqrt((animal.x - disease.x)**2 + (animal.y -
\* disease.y)**2)" of _update_diseases.
disease_dist2(a, d) == (a.x - d.x) * (a.x - d.x) + (a.y - d.y) * (a.y - d.y)

\* "dist < disease.radius"
InDiseaseRange(a, d) == disease_dist2(a, d) < d.radius * d.radius

\* The agents a disease can newly infect this turn.
Exposed(d, herb, pred, ag) ==
    {id \in (IF d.type \in {"herbivore", "all"} THEN Members(herb) ELSE {})
            \cup (IF d.type \in {"predator", "all"} THEN Members(pred) ELSE {}) :
        InDiseaseRange(ag[id], d) /\ id \notin d.infected}

\* "animal.consume_energy(disease.virulence * 0.3); if not
\*  animal.is_alive(): animal.cause_of_death = f'disease_{disease.type}'"
Infect(a, d) ==
    LET b == consume_energy(a, d.virulence)
    IN  IF ~Alive(b) THEN [b EXCEPT !.cause_of_death = "disease_" \o d.type] ELSE b

\* How many offsets of the disaster's scan with dist <= radius (strictly
\* less when strict) land on cell c.
Visits(d, c, strict) ==
    Cardinality({o \in Landing(d.x, d.radius, c[1], Width)
                        \X Landing(d.y, d.radius, c[2], Height) :
                    IF strict THEN o[1] * o[1] + o[2] * o[2] < d.radius * d.radius
                    ELSE o[1] * o[1] + o[2] * o[2] <= d.radius * d.radius})

\* "animal.energy = 0; animal.cause_of_death = cause"
DisasterKill(a, cause) == [set_energy(a, 0) EXCEPT !.cause_of_death = cause]

\* One visit of the blizzard loop to a herbivore:
\* consume_energy(intensity * 0.2), then the cause if it is not alive.
BlizzardVisit(a, d) ==
    LET b == consume_energy(a, d.intensity * 20)
    IN  IF ~Alive(b) THEN [b EXCEPT !.cause_of_death = "blizzard"] ELSE b

RECURSIVE BlizzardVisits(_, _, _)
BlizzardVisits(a, d, n) ==
    IF n = 0 THEN a ELSE BlizzardVisits(BlizzardVisit(a, d), d, n - 1)

\* The density of a cell the wildfire loop has visited with a positive
\* burn amount: "density *= (1 - burn_amount * 0.8)", followed here with
\* the factor of the centre cell at full intensity.
Burned(v) == v \div 5

(***************************************************************************)
(* The turn: GameState.advance_turn and the three updates it calls         *)
(***************************************************************************)

\* Bound: the number of turns advance_turn is followed for.
MaxTurns == 2

\* What a step leaves in `last`.
Did(step, id, before, removed) ==
    [step |-> step, id |-> id, before |-> before, removed |-> removed, at |-> <<>>]

\* What an iteration of a behaviour loop leaves in `last`: also the agent
\* as it stood when the loop body reached "3. Reproduction".
DidAt(step, id, before, a) ==
    [Did(step, id, before, <<>>) EXCEPT !.at = <<a>>]

\* VegetationSystem.update: growth toward the biome's maximum density; the
\* climate factors are followed as a growth of 0.05 up to density 1.0.
VegetationUpdate(density) ==
    [c \in Cells |-> Min(300, density[c] + 15)]

\* advance_turn up to the start of AnimalSystem.update: the turn counter,
\* the vegetation update, and the herbivore spatial map.
AdvanceTurn ==
    /\ pc = "idle"
    /\ turn < MaxTurns
    /\ turn' = turn + 1
    /\ vegetation' = VegetationUpdate(vegetation)
    /\ herb_map' = BuildMap(herbivores, agents)
    /\ pc' = "h_age"
    /\ idx' = 1
    /\ last' = Did("advance_turn", 0, <<>>, <<>>)
    /\ UNCHANGED <<agents, herbivores, predators, pred_map, prey_map, new_offspring,
                   temperature, diseases, disasters, death_log, recent_deaths>>
    /\ UNCHANGED <<population_history, statistics>>
    /\ UNCHANGED harnessVars

\* One iteration of the "Age and metabolism" loop of AnimalSystem.update.
HerbivoreAge ==
    /\ pc = "h_age"
    /\ idx <= Len(herbivores)
    /\ LET id == herbivores[idx]
           a == agents[id]
       IN  IF ~Alive(a)
           THEN agents' = agents
           ELSE \E fraction_roll \in BOOLEAN, old_age_roll \in OldAgeRolls(a) :
                   agents' = [agents EXCEPT ![id] =
                                 AgeHerbivore(a, fraction_roll, old_age_roll,
                                              temperature[<<a.x, a.y>>])]
    /\ idx' = idx + 1
    /\ last' = Did("h_age", herbivores[idx], <<>>, <<>>)
    /\ UNCHANGED <<herbivores, predators, herb_map, pred_map, prey_map, new_offspring,
                   vegetation, temperature, diseases, disasters, pc, turn,
                   death_log, recent_deaths>>
    /\ UNCHANGED <<population_history, statistics>>
    /\ UNCHANGED harnessVars

\* The aging loop is over: the behaviour phase starts with no offspring.
HerbivoreAgeDone ==
    /\ pc = "h_age"
    /\ idx > Len(herbivores)
    /\ pc' = "h_behave"
    /\ idx' = 1
    /\ new_offspring' = <<>>
    /\ last' = Did("h_age_done", 0, <<>>, <<>>)
    /\ UNCHANGED <<agents, herbivores, predators, herb_map, pred_map, prey_map,
                   vegetation, temperature, diseases, disasters, turn,
                   death_log, recent_deaths>>
    /\ UNCHANGED <<population_history, statistics>>
    /\ UNCHANGED harnessVars

\* A plausible slip in the behaviour loops: the check for a dead agent is
\* left out.
skips_behaviour_never(a) == FALSE

\* "if not animal.is_alive(): continue" / "if not predator.is_alive():
\* continue" at the top of the behaviour loops
SkipsBehaviour(a) == ~Alive(a)

\* One iteration of the behaviour loop of AnimalSystem.update: move, feed,
\* reproduce.
HerbivoreBehave ==
    /\ pc = "h_behave"
    /\ idx <= Len(herbivores)
    /\ LET id == herbivores[idx]
           a == agents[id]
       IN  IF SkipsBehaviour(a)
           THEN /\ UNCHANGED <<agents, vegetation, new_offspring, death_log>>
                /\ last' = Did("h_behave", id, <<>>, <<>>)
           ELSE \E target \in HerbivoreMoveTargets(a) :
                  LET moved == [a EXCEPT !.x = target[1], !.y = target[2]]
                      feed == resolve_herbivore_feeding(moved.combat_stats,
                                                        vegetation[target])
                      fed == [moved EXCEPT !.combat_stats = feed.stats]
                      litters == IF HerbivoreCanReproduce(fed)
                                 THEN HerbivoreLitters(herb_map, agents, id, fed)
                                 ELSE {}
                  IN  /\ vegetation' = [vegetation EXCEPT ![target] = @ - feed.consumed]
                      /\ last' = DidAt("h_behave", id, <<>>, fed)
                      /\ IF litters = {}
                         THEN /\ agents' = [agents EXCEPT ![id] = fed]
                              /\ UNCHANGED <<new_offspring, death_log>>
                         ELSE \E k \in litters :
                                /\ agents' = [agents EXCEPT ![id] = PayReproduction(fed, 6)]
                                             \o Copies(Offspring(fed), k)
                                /\ new_offspring' = new_offspring \o NewIds(agents, k)
                                /\ death_log' = death_log \o Copies(<<>>, k)
    /\ idx' = idx + 1
    /\ UNCHANGED <<herbivores, predators, herb_map, pred_map, prey_map,
                   temperature, diseases, disasters, pc, turn, recent_deaths>>
    /\ UNCHANGED <<population_history, statistics>>
    /\ UNCHANGED harnessVars

HerbivoreBehaveDone ==
    /\ pc = "h_behave"
    /\ idx > Len(herbivores)
    /\ pc' = "h_prune"
    /\ idx' = 1
    /\ last' = Did("h_behave_done", 0, <<>>, <<>>)
    /\ UNCHANGED <<agents, herbivores, predators, herb_map, pred_map, prey_map,
                   new_offspring, vegetation, temperature, diseases, disasters, turn,
                   death_log, recent_deaths>>
    /\ UNCHANGED <<population_history, statistics>>
    /\ UNCHANGED harnessVars

\* The end of AnimalSystem.update: the offspring join the list, the dead
\* are counted by cause and logged, the list keeps the living, and the
\* count of each species in the kept list goes to its population history.
HerbivorePrune ==
    /\ pc = "h_prune"
    /\ LET full == herbivores \o new_offspring
           dead == Dead(full, agents)
       IN  /\ recent_deaths' = [recent_deaths EXCEPT !.herbivores = Tally(dead, agents)]
           /\ death_log' = LogDeaths(death_log, dead, agents)
           /\ herbivores' = Kept(full, agents)
           /\ last' = Did("h_prune", 0, full, dead)
    /\ new_offspring' = <<>>
    /\ pc' = "p_start"
    /\ idx' = 1
    /\ UNCHANGED <<agents, predators, herb_map, pred_map, prey_map,
                   vegetation, temperature, diseases, disasters, turn>>
    /\ population_history' =
          [population_history EXCEPT !.herbivores =
              [s \in HerbivoreSpecies |->
                  Append(@[s],
                         population_count(Kept(herbivores \o new_offspring, agents),
                                          agents, s))]]
    /\ UNCHANGED statistics
    /\ UNCHANGED harnessVars

\* A map with no key
EmptyMap(m) == Len(m) = 0

\* The start of PredatorSystem.update: the predator spatial map, and
\* _build_prey_map, which takes the herbivore system's spatial map as it
\* is when it has a key, and builds one from the live list otherwise.
PredatorUpdateStart ==
    /\ pc = "p_start"
    /\ pred_map' = BuildMap(predators, agents)
    /\ prey_map' = IF ~EmptyMap(herb_map) THEN herb_map
                   ELSE BuildMap(herbivores, agents)
    /\ pc' = "p_age"
    /\ idx' = 1
    /\ last' = Did("p_start", 0, <<>>, <<>>)
    /\ UNCHANGED <<agents, herbivores, predators, herb_map, new_offspring,
                   vegetation, temperature, diseases, disasters, turn,
                   death_log, recent_deaths>>
    /\ UNCHANGED <<population_history, statistics>>
    /\ UNCHANGED harnessVars

\* One iteration of the "Age and metabolism" loop of PredatorSystem.update,
\* up to the metabolism damage.  A dead predator and one that dies of old
\* age are done with the iteration ("continue").
PredatorAge ==
    /\ pc = "p_age"
    /\ idx <= Len(predators)
    /\ LET id == predators[idx]
           a == agents[id]
           c == <<a.x, a.y>>
       IN  IF ~Alive(a)
           THEN UNCHANGED <<agents, pc>> /\ idx' = idx + 1
           ELSE \E old_age_roll \in OldAgeRolls(a) :
                  /\ agents' = [agents EXCEPT ![id] =
                                   AgePredator(a, old_age_roll, temperature[c],
                                               Len(CellList(pred_map, c)))]
                  /\ IF OldAgeDeath(a, old_age_roll)
                     THEN UNCHANGED pc /\ idx' = idx + 1
                     ELSE pc' = "p_backup" /\ UNCHANGED idx
    /\ last' = Did("p_age", predators[idx], <<>>, <<>>)
    /\ UNCHANGED <<herbivores, predators, herb_map, pred_map, prey_map, new_offspring,
                   vegetation, temperature, diseases, disasters, turn,
                   death_log, recent_deaths>>
    /\ UNCHANGED <<population_history, statistics>>
    /\ UNCHANGED harnessVars

\* The rest of the iteration: the bear's vegetation backup, the cooldowns.
PredatorBackup ==
    /\ pc = "p_backup"
    /\ LET id == predators[idx]
           a == agents[id]
           c == <<a.x, a.y>>
           r == FinishAgingPredator(a, vegetation[c])
       IN  /\ agents' = [agents EXCEPT ![id] = r.agent]
           /\ vegetation' = [vegetation EXCEPT ![c] = r.veg]
    /\ pc' = "p_age"
    /\ idx' = idx + 1
    /\ last' = Did("p_backup", predators[idx], <<>>, <<>>)
    /\ UNCHANGED <<herbivores, predators, herb_map, pred_map, prey_map, new_offspring,
                   temperature, diseases, disasters, turn, death_log, recent_deaths>>
    /\ UNCHANGED <<population_history, statistics>>
    /\ UNCHANGED harnessVars

PredatorAgeDone ==
    /\ pc = "p_age"
    /\ idx > Len(predators)
    /\ pc' = "p_behave"
    /\ idx' = 1
    /\ new_offspring' = <<>>
    /\ last' = Did("p_age_done", 0, <<>>, <<>>)
    /\ UNCHANGED <<agents, herbivores, predators, herb_map, pred_map, prey_map,
                   vegetation, temperature, diseases, disasters, turn,
                   death_log, recent_deaths>>
    /\ UNCHANGED <<population_history, statistics>>
    /\ UNCHANGED harnessVars

\* The predator after _move_predator went to cell c
MovedTo(a, c) == [a EXCEPT !.x = c[1], !.y = c[2]]

\* The agents after step 3 of the behaviour loop for predator id, and the
\* ids of its offspring: reproduction with litter k, or none when k < 0.
ReproducePredator(ag, id, k) ==
    IF k < 0 THEN [agents |-> ag, born |-> <<>>]
    ELSE [agents |-> [ag EXCEPT ![id] = PayReproduction(ag[id], 8)]
                     \o Copies(Offspring(ag[id]), k),
          born |-> NewIds(ag, k)]

\* The litters step 3 can produce for predator id in agents ag; -1 stands
\* for "no reproduction".
LitterChoices(ag, id) ==
    IF PredatorCanReproduce(ag[id]) /\ PredatorLitters(pred_map, ag, id) # {}
    THEN PredatorLitters(pred_map, ag, id) ELSE {-1}

\* One iteration of the behaviour loop of PredatorSystem.update: move,
\* hunt if able, reproduce.
PredatorBehave ==
    /\ pc = "p_behave"
    /\ idx <= Len(predators)
    /\ LET id == predators[idx]
           a == agents[id]
       IN  IF SkipsBehaviour(a)
           THEN /\ UNCHANGED <<agents, herbivores, new_offspring, death_log>>
                /\ last' = Did("p_behave", id, <<>>, <<>>)
           ELSE \E c \in PredatorMoveTargets(a, prey_map) :
                  LET ag1 == [agents EXCEPT ![id] = MovedTo(a, c)]
                      target == IF can_hunt(ag1[id])
                                THEN HuntTarget(prey_map, c[1], c[2]) ELSE 0
                  IN  \E hit_roll \in HuntRolls(target),
                         counter_roll \in HuntCounterRolls(ag1, target) :
                        LET ag2 == IF target = 0 THEN ag1
                                   ELSE attempt_hunt(ag1, id, target,
                                                     PackMembers(pred_map, ag1, id),
                                                     hit_roll, counter_roll).agents
                        IN  \E k \in LitterChoices(ag2, id) :
                              LET r == ReproducePredator(ag2, id, k)
                              IN  /\ agents' = r.agents
                                  /\ herbivores' = prey_list_after_hunt(herbivores, ag2,
                                                                         target)
                                  /\ new_offspring' = new_offspring \o r.born
                                  /\ death_log' = death_log \o Copies(<<>>, Len(r.born))
                                  /\ last' = DidAt("p_behave", id,
                                                   IF target = 0 THEN <<>> ELSE <<target>>,
                                                   ag2[id])
    /\ idx' = idx + 1
    /\ UNCHANGED <<predators, herb_map, pred_map, prey_map,
                   vegetation, temperature, diseases, disasters, pc, turn,
                   recent_deaths>>
    /\ UNCHANGED <<population_history, statistics>>
    /\ UNCHANGED harnessVars

PredatorBehaveDone ==
    /\ pc = "p_behave"
    /\ idx > Len(predators)
    /\ pc' = "p_prune"
    /\ idx' = 1
    /\ last' = Did("p_behave_done", 0, <<>>, <<>>)
    /\ UNCHANGED <<agents, herbivores, predators, herb_map, pred_map, prey_map,
                   new_offspring, vegetation, temperature, diseases, disasters, turn,
                   death_log, recent_deaths>>
    /\ UNCHANGED <<population_history, statistics>>
    /\ UNCHANGED harnessVars

\* The end of PredatorSystem.update.
PredatorPrune ==
    /\ pc = "p_prune"
    /\ LET full == predators \o new_offspring
           dead == Dead(full, agents)
       IN  /\ recent_deaths' = [recent_deaths EXCEPT !.predators = Tally(dead, agents)]
           /\ death_log' = LogDeaths(death_log, dead, agents)
           /\ predators' = Kept(full, agents)
           /\ last' = Did("p_prune", 0, full, dead)
    /\ new_offspring' = <<>>
    /\ pc' = "eco_disease"
    /\ idx' = 1
    /\ UNCHANGED <<agents, herbivores, herb_map, pred_map, prey_map,
                   vegetation, temperature, diseases, disasters, turn>>
    /\ population_history' =
          [population_history EXCEPT !.predators =
              [s \in PredatorSpecies |->
                  Append(@[s],
                         population_count(Kept(predators \o new_offspring, agents),
                                          agents, s))]]
    /\ UNCHANGED statistics
    /\ UNCHANGED harnessVars

\* One iteration of the loop of _update_diseases: the disease infects some
\* of the exposed agents, then ages and widens.
DiseaseStep ==
    /\ pc = "eco_disease"
    /\ idx <= Len(diseases)
    /\ LET d == diseases[idx]
       IN  \E S \in SUBSET Exposed(d, herbivores, predators, agents) :
              /\ agents' = [id \in DOMAIN agents |->
                              IF id \in S THEN Infect(agents[id], d) ELSE agents[id]]
              /\ diseases' = [diseases EXCEPT ![idx] =
                                 [d EXCEPT !.infected = @ \cup S,
                                           !.duration = @ - 1,
                                           !.radius = @ + 1]]
    /\ idx' = idx + 1
    /\ last' = Did("eco_disease", 0, <<>>, <<>>)
    /\ UNCHANGED <<herbivores, predators, herb_map, pred_map, prey_map, new_offspring,
                   vegetation, temperature, disasters, pc, turn,
                   death_log, recent_deaths>>
    /\ UNCHANGED <<population_history, statistics>>
    /\ UNCHANGED harnessVars

\* "Remove expired diseases"
DiseasesDone ==
    /\ pc = "eco_disease"
    /\ idx > Len(diseases)
    /\ diseases' = SelectSeq(diseases, LAMBDA d : d.duration > 0)
    /\ pc' = "eco_disaster"
    /\ idx' = 1
    /\ last' = Did("eco_disease_done", 0, <<>>, <<>>)
    /\ UNCHANGED <<agents, herbivores, predators, herb_map, pred_map, prey_map,
                   new_offspring, vegetation, temperature, disasters, turn,
                   death_log, recent_deaths>>
    /\ UNCHANGED <<population_history, statistics>>
    /\ UNCHANGED harnessVars

\* One iteration of the loop of _update_disasters.
DisasterStep ==
    /\ pc = "eco_disaster"
    /\ idx <= Len(disasters)
    /\ LET d == disasters[idx]
           at(id) == <<agents[id].x, agents[id].y>>
           in_fire == {id \in Members(herbivores) \cup Members(predators) :
                          Visits(d, at(id), TRUE) > 0}
           in_flood == {id \in Members(herbivores) : Visits(d, at(id), FALSE) > 0}
       IN  CASE d.type = "wildfire" ->
                  /\ vegetation' = [c \in Cells |->
                                      IF Visits(d, c, TRUE) > 0
                                      THEN Burned(vegetation[c]) ELSE vegetation[c]]
                  /\ \E S \in SUBSET in_fire :
                       agents' = [id \in DOMAIN agents |->
                                    IF id \in S THEN DisasterKill(agents[id], "wildfire")
                                    ELSE agents[id]]
              [] d.type = "flood" ->
                  \E S \in SUBSET in_flood :
                    /\ agents' = [id \in DOMAIN agents |->
                                    IF id \in S THEN DisasterKill(agents[id], "flood")
                                    ELSE agents[id]]
                    /\ UNCHANGED vegetation
              [] OTHER ->
                    /\ agents' = [id \in DOMAIN agents |->
                                    IF id \in Members(herbivores)
                                    THEN BlizzardVisits(agents[id], d,
                                                        Visits(d, at(id), FALSE))
                                    ELSE agents[id]]
                    /\ UNCHANGED vegetation
    /\ disasters' = [disasters EXCEPT ![idx].duration = @ - 1]
    /\ idx' = idx + 1
    /\ last' = Did("eco_disaster", 0, <<>>, <<>>)
    /\ UNCHANGED <<herbivores, predators, herb_map, pred_map, prey_map, new_offspring,
                   temperature, diseases, pc, turn, death_log, recent_deaths>>
    /\ UNCHANGED <<population_history, statistics>>
    /\ UNCHANGED harnessVars

\* "Remove expired disasters"
DisastersDone ==
    /\ pc = "eco_disaster"
    /\ idx > Len(disasters)
    /\ disasters' = SelectSeq(disasters, LAMBDA d : d.duration > 0)
    /\ pc' = "eco_generate"
    /\ idx' = 1
    /\ last' = Did("eco_disaster_done", 0, <<>>, <<>>)
    /\ UNCHANGED <<agents, herbivores, predators, herb_map, pred_map, prey_map,
                   new_offspring, vegetation, temperature, diseases, turn,
                   death_log, recent_deaths>>
    /\ UNCHANGED <<population_history, statistics>>
    /\ UNCHANGED harnessVars

\* Bound: how many events (diseases and disasters) are active at once.
MaxEvents == 1

\* The outbreak _generate_events can add.  The code draws position, type,
\* virulence and duration; the model follows one draw: type 'all',
\* virulence 0.7 (an infection costs 0.21 of the energy), duration 5.
NewDiseases == {Disease(0, 0, "all", 210, 5)}

\* The disaster _generate_events can add: a blizzard of intensity 0.9,
\* duration 2, radius 8.
NewDisasters == {NaturalDisaster(0, 0, "blizzard", 9, 2, 8)}

\* _generate_events: each of the two draws adds an event or does not.
GenerateEvents ==
    /\ pc = "eco_generate"
    /\ \E nd \in {<<>>} \cup (IF Len(diseases) + Len(disasters) < MaxEvents
                              THEN {<<d>> : d \in NewDiseases} ELSE {}) :
          /\ diseases' = diseases \o nd
          /\ \E ns \in {<<>>} \cup (IF Len(diseases') + Len(disasters) < MaxEvents
                                    THEN {<<d>> : d \in NewDisasters} ELSE {}) :
                disasters' = disasters \o ns
    /\ pc' = "end"
    /\ last' = Did("eco_generate", 0, <<>>, <<>>)
    /\ UNCHANGED <<agents, herbivores, predators, herb_map, pred_map, prey_map,
                   new_offspring, vegetation, temperature, idx, turn,
                   death_log, recent_deaths>>
    /\ UNCHANGED <<population_history, statistics>>
    /\ UNCHANGED harnessVars

\* The order in which _update_statistics visits the species: the keys of
\* {**herbivore_counts, **predator_counts}
SpeciesOrder ==
    <<"deer", "bison", "caribou", "musk_ox", "gazelle", "elephant",
      "rabbit", "iguana", "frog",
      "wolf", "lion", "bear", "polar_bear", "leopard", "snow_leopard",
      "arctic_fox", "red_fox", "boar", "jackal", "crocodile", "snake",
      "giant_toad">>

\* get_population_counts of the two systems, merged: the members of the
\* live list per species, dead ones that are not pruned yet included
get_population_counts(herbs, preds, ag) ==
    [sp \in HerbivoreSpecies \cup PredatorSpecies |->
        IF sp \in HerbivoreSpecies THEN population_count(herbs, ag, sp)
                                   ELSE population_count(preds, ag, sp)]

\* The extinction check without its "not in" test: every species at count
\* 0 is appended at every turn
report_extinctions_every_turn(extinctions, counts) ==
    LET Gone(sp) == counts[sp] = 0
    IN  extinctions \o SelectSeq(SpeciesOrder, Gone)

\* _update_statistics, the extinction check: a species at count 0 that is
\* not in statistics['extinctions'] yet is appended to it
report_extinctions(extinctions, counts) ==
    LET NewlyGone(sp) ==
            /\ counts[sp] = 0
            /\ \A i \in 1..Len(extinctions) : extinctions[i] # sp
    IN  extinctions \o SelectSeq(SpeciesOrder, NewlyGone)

\* The rest of advance_turn: the tribe's part, which leaves the two groups
\* alone, and _update_statistics.
FinishTurn ==
    /\ pc = "end"
    /\ pc' = "idle"
    /\ last' = Did("advance_turn_end", 0, <<>>, <<>>)
    /\ statistics' =
          [statistics EXCEPT !.extinctions =
              report_extinctions(@, get_population_counts(herbivores, predators,
                                                          agents))]
    /\ UNCHANGED <<agents, herbivores, predators, herb_map, pred_map, prey_map,
                   new_offspring, vegetation, temperature, diseases, disasters,
                   idx, turn, death_log, recent_deaths>>
    /\ UNCHANGED population_history
    /\ UNCHANGED harnessVars

(***************************************************************************)
(* Initial states                                                          *)
(***************************************************************************)

\* An agent as the game has it some turns in (or after load_game, which
\* sets energy and age from the save): health, age and cooldown given.
Placed(kind, species, x, y, hp, age, cooldown) ==
    [NewAgent(kind, x, y, species) EXCEPT !.combat_stats.current_hp = hp,
                                          !.age = age,
                                          !.reproductive_cooldown = cooldown]

\* The populations and events the turns are followed from.
Scenarios ==
    { \* a herd: one deer able to reproduce, one old and starving
      [name |-> "herd", h |-> <<Placed("herbivore", "deer", 0, 0, 30, 10, 0),
               Placed("herbivore", "deer", 1, 0, 1, 60, 2)>>,
        p |-> <<>>, temp |-> 12, veg |-> 150, diseases |-> <<>>, disasters |-> <<>>],
      \* a hunt: two hungry wolves, a starving deer and a healthy one
      [name |-> "hunt", h |-> <<Placed("herbivore", "deer", 0, 0, 1, 20, 3),
               Placed("herbivore", "deer", 2, 0, 12, 5, 0)>>,
        p |-> <<Placed("predator", "wolf", 1, 0, 20, 12, 0),
                Placed("predator", "wolf", 1, 2, 20, 12, 4)>>,
        temp |-> 12, veg |-> 0, diseases |-> <<>>, disasters |-> <<>>],
      \* a pack: two wolves, one able to reproduce, a bison in reach
      [name |-> "pack", h |-> <<Placed("herbivore", "bison", 6, 5, 50, 10, 3)>>,
        p |-> <<Placed("predator", "wolf", 5, 5, 27, 12, 0),
                Placed("predator", "wolf", 5, 6, 27, 41, 5)>>,
        temp |-> 12, veg |-> 150, diseases |-> <<>>, disasters |-> <<>>],
      \* a bear on its last health point next to a bison
      [name |-> "bear", h |-> <<Placed("herbivore", "bison", 2, 2, 50, 10, 3)>>,
        p |-> <<Placed("predator", "bear", 2, 3, 1, 30, 0)>>,
        temp |-> 12, veg |-> 150, diseases |-> <<>>, disasters |-> <<>>],
      \* a weak bear hunting a bison, an old wolf
      [name |-> "bison", h |-> <<Placed("herbivore", "bison", 2, 2, 50, 10, 3)>>,
        p |-> <<Placed("predator", "bear", 2, 3, 9, 30, 0),
                Placed("predator", "wolf", 5, 5, 30, 60, 0)>>,
        temp |-> 12, veg |-> 0, diseases |-> <<>>, disasters |-> <<>>],
      \* a gazelle in the cold
      [name |-> "cold", h |-> <<Placed("herbivore", "gazelle", 4, 4, 2, 41, 0)>>,
        p |-> <<>>, temp |-> 6, veg |-> 0, diseases |-> <<>>, disasters |-> <<>>] }
    \cup
    \* an outbreak and a disaster under way around a deer and a wolf
    { [name |-> "events", h |-> <<Placed("herbivore", "deer", 0, 0, 4, 10, 3)>>,
       p |-> <<Placed("predator", "wolf", 1, 0, 8, 12, 3)>>,
       temp |-> 12, veg |-> 150,
       diseases |-> <<[Disease(0, 0, ev[1], 210, 2) EXCEPT !.radius = 6]>>,
       disasters |-> <<NaturalDisaster(0, 0, ev[2], 9, 2, 8)>>] :
      ev \in {<<"herbivore", "wildfire">>, <<"predator", "flood">>,
              <<"all", "blizzard">>} }

NoDeaths == [c \in Causes |-> 0]

SimInit ==
    \E s \in Scenarios :
        /\ agents = s.h \o s.p
        /\ herbivores = [i \in 1..Len(s.h) |-> i]
        /\ predators = [i \in 1..Len(s.p) |-> Len(s.h) + i]
        /\ herb_map = <<>>
        /\ pred_map = <<>>
        /\ prey_map = <<>>
        /\ new_offspring = <<>>
        /\ vegetation = [c \in Cells |-> s.veg]
        /\ temperature = [c \in Cells |-> s.temp]
        /\ diseases = s.diseases
        /\ disasters = s.disasters
        /\ pc = "idle"
        /\ idx = 1
        /\ turn = 0
        /\ death_log = [i \in 1..(Len(s.h) + Len(s.p)) |-> <<>>]
        /\ recent_deaths = [herbivores |-> NoDeaths, predators |-> NoDeaths]
        /\ last = Did("init", 0, <<>>, <<>>)
        /\ population_history =
              [herbivores |-> [sp \in HerbivoreSpecies |->
                                 <<population_count([i \in 1..Len(s.h) |-> i],
                                                    s.h \o s.p, sp)>>],
               predators |-> [sp \in PredatorSpecies |->
                                 <<population_count([i \in 1..Len(s.p) |-> Len(s.h) + i],
                                                    s.h \o s.p, sp)>>]]
        /\ statistics = [extinctions |-> <<>>]

\* The simulation at rest, for the specification of the combat resolver
SimIdle ==
    /\ agents = <<>>
    /\ herbivores = <<>>
    /\ predators = <<>>
    /\ herb_map = <<>>
    /\ pred_map = <<>>
    /\ prey_map = <<>>
    /\ new_offspring = <<>>
    /\ vegetation = <<>>
    /\ temperature = <<>>
    /\ diseases = <<>>
    /\ disasters = <<>>
    /\ pc = "idle"
    /\ idx = 1
    /\ turn = 0
    /\ death_log = <<>>
    /\ recent_deaths = [herbivores |-> NoDeaths, predators |-> NoDeaths]
    /\ last = Did("init", 0, <<>>, <<>>)
    /\ population_history = [herbivores |-> [sp \in HerbivoreSpecies |-> <<>>],
                             predators |-> [sp \in PredatorSpecies |-> <<>>]]
    /\ statistics = [extinctions |-> <<>>]

Init == SimInit /\ HarnessIdle

Next ==
    \/ AdvanceTurn
    \/ HerbivoreAge
    \/ HerbivoreAgeDone
    \/ HerbivoreBehave
    \/ HerbivoreBehaveDone
    \/ HerbivorePrune
    \/ PredatorUpdateStart
    \/ PredatorAge
    \/ PredatorBackup
    \/ PredatorAgeDone
    \/ PredatorBehave
    \/ PredatorBehaveDone
    \/ PredatorPrune
    \/ DiseaseStep
    \/ DiseasesDone
    \/ DisasterStep
    \/ DisastersDone
    \/ GenerateEvents
    \/ FinishTurn

Spec == Init /\ [][Next]_vars

CombatInit == SimIdle /\ HarnessInit

SpecCombat == CombatInit /\ [][CombatNext]_vars

(***************************************************************************)
(* Properties of the combat primitives and the resolver (SpecCombat)       *)
(***************************************************************************)

\* C1: take_damage(raw) with raw >= 0 on stats with 0 <= current_hp <=
\* max_hp returns exactly min(max(1, raw - defense), current_hp) and
\* subtracts exactly that from current_hp; afterwards 0 <= current_hp <=
\* max_hp; a target that was alive loses at least 1, a target at 0 health
\* loses 0.
C1_TakeDamageExact ==
    h_call.op = "take_damage" =>
        LET before == h_call.prey
            expected == Min(Max(1, h_call.raw - before.defense), before.current_hp)
        IN  /\ h_ret.damage = expected
            /\ h_prey.current_hp = before.current_hp - expected
            /\ 0 <= h_prey.current_hp /\ h_prey.current_hp <= h_prey.max_hp
            /\ (before.current_hp > 0 => h_ret.damage >= 1)
            /\ (before.current_hp = 0 => h_ret.damage = 0 /\ h_prey.current_hp = 0)
            /\ h_prey = [before EXCEPT !.current_hp = h_prey.current_hp]

\* C1 happens: a blow of raw damage 100 landed on a living target with 1
\* health left and took exactly that 1.
C1_Witness ==
    /\ h_call.op = "take_damage"
    /\ h_call.raw = 100
    /\ h_call.prey.current_hp = 1
    /\ h_ret.damage = 1
    /\ h_prey.current_hp = 0

\* C8: after resolve_predator_hunt returns, the predator's attack and
\* accuracy and the prey's evasion and defense equal their values before
\* the call; after resolve_environmental_damage returns, the creature's
\* defense equals its value before the call.
C8_ModifiersReverted ==
    /\ h_call.op = "resolve_predator_hunt" =>
          /\ h_pred.attack = h_call.pred.attack
          /\ h_pred.accuracy = h_call.pred.accuracy
          /\ h_prey.evasion = h_call.prey.evasion
          /\ h_prey.defense = h_call.prey.defense
    /\ h_call.op = "resolve_environmental_damage" =>
          h_prey.defense = h_call.prey.defense

\* C8 happens: a hunt resolved with a pack bonus, an ambush bonus and a
\* flight bonus all in force, the attack having hit.
C8_Witness ==
    /\ h_call.op = "resolve_predator_hunt"
    /\ pack_attack_bonus(h_call.pack_bonus, h_call.pack_members) > 0
    /\ ambush_accuracy_bonus(h_call.terrain) > 0
    /\ flight_evasion_bonus(h_call.pred, h_call.prey, h_call.terrain) > 0
    /\ h_ret.hit

\* C9: for every predator attack value, pack size and terrain,
\* resolve_predator_hunt called with prey evasion 100 and predator accuracy
\* 0 returns (killed = false, damage = 0) and leaves the prey's health
\* unchanged.
C9_HopelessHuntReturnsFalseZero ==
    (/\ h_call.op = "resolve_predator_hunt"
     /\ h_call.prey.evasion = 100
     /\ h_call.pred.accuracy = 0)
    => /\ h_ret.kill = FALSE
       /\ h_ret.damage = 0
       /\ h_prey.current_hp = h_call.prey.current_hp

\* C10: whenever the hit roll succeeds and (predator attack incl. pack
\* bonus + terrain damage modifier - prey defense) >= prey health before
\* the call, the prey's health becomes 0, killed is true, and the returned
\* damage equals the prey's health before the call.
C10_OverkillTakesExactlyTheHealth ==
    (/\ h_call.op = "resolve_predator_hunt"
     /\ h_ret.hit
     /\ h_call.pred.attack
          + pack_attack_bonus(h_call.pack_bonus, h_call.pack_members)
          + TERRAIN_MODIFIERS(h_call.terrain).damage
          - h_call.prey.defense >= h_call.prey.current_hp)
    => /\ h_prey.current_hp = 0
       /\ h_ret.kill = TRUE
       /\ h_ret.damage = h_call.prey.current_hp

\* C10 happens: the predator of attack 999 hit the prey of defense 0,
\* evasion 0 and health 10.
C10_Witness ==
    /\ h_call.op = "resolve_predator_hunt"
    /\ h_ret.hit
    /\ h_call.pred.attack = 999
    /\ h_call.prey = CombatStats(30, 10, 5, 0, 8, 0, 100)
    /\ h_ret.damage = 10
    /\ h_ret.kill

(***************************************************************************)
(* Properties of the simulation (Spec)                                     *)
(***************************************************************************)

\* The agents of the two live lists (offspring waiting to join included)
LiveSet == Members(herbivores) \cup Members(predators) \cup Members(new_offspring)

\* C2: in every reachable state of the simulation every herbivore and
\* predator satisfies 0 <= current_hp <= max_hp.
C2_HealthWithinBounds ==
    \A id \in DOMAIN agents :
        /\ 0 <= agents[id].combat_stats.current_hp
        /\ agents[id].combat_stats.current_hp <= agents[id].combat_stats.max_hp

\* C2 happens: a predator's kill heal (40% of max_hp) was cut off at
\* max_hp, and a herbivore's health was taken down to exactly 0.
C2_Witness ==
    /\ last.step = "p_behave"
    /\ last.id # 0
    /\ agents[last.id].hunt_cooldown = 2
    /\ agents[last.id].combat_stats.current_hp = agents[last.id].combat_stats.max_hp
    /\ \E id \in Members(herbivores) : agents[id].combat_stats.current_hp = 0

\* C3: once an agent's health reaches 0, by any path, it stays 0 (it is
\* never healed back above 0) until the agent is pruned from its live
\* list; bears that reach 0 in the metabolism step and then come to the
\* vegetation-backup step included.
C3_DeadStaysDead ==
    [][\A id \in LiveSet :
          agents[id].combat_stats.current_hp = 0
          => agents'[id].combat_stats.current_hp = 0]_vars

\* C4: an agent's cause_of_death is set at most once: once it is not null
\* it never changes.
C4_CauseSetOnce ==
    [][\A id \in DOMAIN agents :
          agents[id].cause_of_death # "none"
          => agents'[id].cause_of_death = agents[id].cause_of_death]_vars

RECURSIVE SumTally(_, _)
\* The sum of tally t over the causes in set cs
SumTally(t, cs) ==
    IF cs = {} THEN 0
    ELSE LET c == CHOOSE c \in cs : TRUE
         IN  t[c] + SumTally(t, cs \ {c})

\* C5: each group update removes from its live list exactly the agents
\* whose health is <= 0 at prune time and no living one, emits exactly one
\* 'death' callback per removed agent, carrying its recorded cause or
\* 'unknown', and none for a kept agent; recent_deaths counts the removed
\* agents by cause and sums to their number; no agent ever produces two
\* death events.
C5_PruneExact ==
    /\ \A id \in DOMAIN agents : Len(death_log[id]) <= 1
    /\ last.step \in {"h_prune", "p_prune"} =>
         LET list == IF last.step = "h_prune" THEN herbivores ELSE predators
             tally == IF last.step = "h_prune" THEN recent_deaths.herbivores
                      ELSE recent_deaths.predators
             removed == {id \in Members(last.before) : id \notin Members(list)}
         IN  /\ list = SelectSeq(last.before,
                                 LAMBDA id : agents[id].combat_stats.current_hp > 0)
             /\ \A id \in removed :
                   death_log[id] = << IF agents[id].cause_of_death = "none"
                                      THEN "unknown"
                                      ELSE agents[id].cause_of_death >>
             /\ \A id \in Members(list) : death_log[id] = <<>>
             /\ \A c \in Causes :
                   tally[c] = Cardinality({id \in removed : death_log[id] = <<c>>})
             /\ SumTally(tally, Causes) = Cardinality(removed)

\* C5 happens: a predator update has pruned a predator that died with no
\* recorded cause (logged as 'unknown') and kept a living one.
C5_Witness ==
    /\ last.step = "p_prune"
    /\ Len(predators) >= 1
    /\ \E i \in 1..Len(last.removed) : death_log[last.removed[i]] = <<"unknown">>

\* C6: at the end of every advance_turn every agent in the herbivore live
\* list and in the predator live list has health > 0.
C6_LiveListsAliveAtTurnEnd ==
    (pc = "idle" /\ turn > 0) =>
        \A id \in Members(herbivores) \cup Members(predators) :
            agents[id].combat_stats.current_hp > 0

\* The agent the aging loop of the running group update is at
AgingNow(id) ==
    \/ pc = "h_age" /\ idx <= Len(herbivores) /\ herbivores[idx] = id
    \/ pc = "p_age" /\ idx <= Len(predators) /\ predators[idx] = id

\* C7: age never decreases: the aging step of a group update adds exactly
\* 1 to the age of an agent that is alive when the step reaches it and
\* leaves a dead agent's age unchanged; no other step of the turn changes
\* an age.
C7_AgeAdvancesByOne ==
    [][\A id \in DOMAIN agents :
          agents'[id].age = IF AgingNow(id) /\ Alive(agents[id])
                            THEN agents[id].age + 1
                            ELSE agents[id].age]_vars

\* C7 happens: in the second turn the aging step has reached a living
\* herbivore a second time: the deer that started at age 10 is 12.
C7_Witness ==
    /\ turn = 2
    /\ last.step = "h_age"
    /\ Alive(agents[last.id])
    /\ agents[last.id].age = 12

(***************************************************************************)
(* Reproduction, spawning, distances, the spatial index                    *)
(***************************************************************************)

\* The agent is not fit to reproduce: health below its species'
\* reproduction threshold, or a running cooldown, or too young.
Unfit(a) ==
    \/ a.combat_stats.current_hp < Template(a.species).reproduction_threshold
    \/ a.reproductive_cooldown > 0
    \/ a.age <= (IF a.kind = "herbivore" THEN 8 ELSE 10)

\* C11: an agent whose health is below its species' reproduction threshold
\* at the reproduction step (or whose cooldown is running, or whose age is
\* at most 8 for a herbivore, 10 for a predator) spawns no offspring, pays
\* no reproduction cost and gets no cooldown set in that iteration.
C11_UnfitNeverReproduces ==
    [][(/\ last'.step \in {"h_behave", "p_behave"}
        /\ last'.at # <<>>
        /\ Unfit(last'.at[1]))
       => /\ new_offspring' = new_offspring
          /\ Len(agents') = Len(agents)
          /\ agents'[last'.id] = last'.at[1]]_vars

\* C11 happens: a predator of age above 10 with no cooldown and a
\* same-species mate in range reached the reproduction step below its
\* threshold.
C11_Witness ==
    /\ last.step = "p_behave"
    /\ last.at # <<>>
    /\ last.at[1].combat_stats.current_hp > 0
    /\ last.at[1].combat_stats.current_hp
         < Template(last.at[1].species).reproduction_threshold
    /\ last.at[1].reproductive_cooldown = 0
    /\ last.at[1].age > 10
    /\ SameSpeciesNeighbours(pred_map, agents, last.id,
                             last.at[1].x, last.at[1].y) \in 1..3

(***************************************************************************)
(* The spawn paths: initial populations, migrants, offspring               *)
(***************************************************************************)

\* The species of a group
SpeciesOf(kind) == IF kind = "herbivore" THEN HerbivoreSpecies ELSE PredatorSpecies

\* start_hp_percent = np.random.uniform(0.8, 1.0), in 1/1000: both ends of
\* the range and a value inside it.
StartHpPermille == {800, 900, 999}

\* The cells spawn_migrants draws from: the four edges of the map.
EdgeCells ==
    {c \in Cells : c[1] \in {0, Width - 1} \/ c[2] \in {0, Height - 1}}

\* "animal = Animal(x, y, species_name);
\*  animal.combat_stats.current_hp = int(animal.combat_stats.max_hp * fraction)"
SpawnedAt(kind, species, c, permille) ==
    LET a == NewAgent(kind, c[1], c[2], species)
    IN  [a EXCEPT !.combat_stats.current_hp = HpFraction(a, permille)]

\* One agent made by spawn_initial_populations (either system).  Each
\* spawn is followed on its own, from the state with no call made.
SpawnInitialPopulations ==
    /\ h_call = NoCall
    /\ \E kind \in {"herbivore", "predator"}, c \in Cells, permille \in StartHpPermille :
         \E species \in SpeciesOf(kind) :
           /\ h_call' = [op |-> "spawn_initial_populations", species |-> species]
           /\ h_ret' = [agent |-> SpawnedAt(kind, species, c, permille)]
    /\ UNCHANGED <<h_pred, h_prey, h_phase>>
    /\ UNCHANGED simVars

\* One agent made by spawn_migrants (either system): 90% of full health
SpawnMigrants ==
    /\ h_call = NoCall
    /\ \E kind \in {"herbivore", "predator"}, c \in EdgeCells :
         \E species \in SpeciesOf(kind) :
           /\ h_call' = [op |-> "spawn_migrants", species |-> species]
           /\ h_ret' = [agent |-> SpawnedAt(kind, species, c, 900)]
    /\ UNCHANGED <<h_pred, h_prey, h_phase>>
    /\ UNCHANGED simVars

\* One offspring made by _reproduce_animal / _reproduce_predator, at its
\* parent's cell
SpawnOffspring ==
    /\ h_call = NoCall
    /\ \E kind \in {"herbivore", "predator"}, c \in Cells :
         \E species \in SpeciesOf(kind) :
           /\ h_call' = [op |-> "reproduce", species |-> species]
           /\ h_ret' = [agent |-> Offspring(NewAgent(kind, c[1], c[2], species))]
    /\ UNCHANGED <<h_pred, h_prey, h_phase>>
    /\ UNCHANGED simVars

SpawnNext ==
    \/ SpawnInitialPopulations
    \/ SpawnMigrants
    \/ SpawnOffspring

SpawnInit == SimIdle /\ HarnessIdle

SpecSpawn == SpawnInit /\ [][SpawnNext]_vars

SpawnOps == {"spawn_initial_populations", "spawn_migrants", "reproduce"}

\* C12: every agent created by any spawn path (initial seeding, migration,
\* reproduction), for every species template, is alive right after its
\* creation: 0 < current_hp <= max_hp, with age 0 and no cause of death.
C12_SpawnedAlive ==
    h_call.op \in SpawnOps
    => /\ Alive(h_ret.agent)
       /\ h_ret.agent.combat_stats.current_hp > 0
       /\ h_ret.agent.combat_stats.current_hp <= h_ret.agent.combat_stats.max_hp
       /\ h_ret.agent.age = 0
       /\ h_ret.agent.cause_of_death = "none"

\* C12 happens: the offspring of the species with the least max_hp, the
\* frog (5), was born with int(5 * 0.5) = 2 health.
C12_Witness ==
    /\ h_call.op = "reproduce"
    /\ h_call.species = "frog"
    /\ h_ret.agent.species = "frog"
    /\ h_ret.agent.combat_stats.current_hp = 2

(***************************************************************************)
(* The distances the simulation computes between two grid positions        *)
(***************************************************************************)

\* "if abs(dx) > self.width / 2: dx -= np.sign(dx) * self.width"
wrapped_delta(d, size) == IF 2 * Abs(d) > size THEN d - Sign(d) * size ELSE d

\* The square of the distance of _attempt_hunt from a predator to a tribe
\* unit (predator_system.py 338-344).
unit_dist2(predator, unit) ==
    LET dx == wrapped_delta(unit.x - predator.x, Width)
        dy == wrapped_delta(unit.y - predator.y, Height)
    IN  dx * dx + dy * dy

\* The square of "p_dist = np.sqrt((nx - px)**2 + (ny - py)**2)" of
\* _move_animal, from a candidate cell to a nearby predator's cell.
threat_dist2(n, p) == (n.x - p.x) * (n.x - p.x) + (n.y - p.y) * (n.y - p.y)

\* A position on the grid
Positions == [x : 0..(Width - 1), y : 0..(Height - 1)]

\* One distance taken from a predator to a tribe unit
CallUnitDistance ==
    /\ h_call = NoCall
    /\ \E a \in Positions, b \in Positions :
         /\ h_call' = [op |-> "unit_distance", a |-> a, b |-> b]
         /\ h_ret' = [dist2 |-> unit_dist2(a, b)]
    /\ UNCHANGED <<h_pred, h_prey, h_phase>>
    /\ UNCHANGED simVars

\* One distance taken from a herbivore's candidate cell to a threat
CallThreatDistance ==
    /\ h_call = NoCall
    /\ \E a \in Positions, b \in Positions :
         /\ h_call' = [op |-> "threat_distance", a |-> a, b |-> b]
         /\ h_ret' = [dist2 |-> threat_dist2(a, b)]
    /\ UNCHANGED <<h_pred, h_prey, h_phase>>
    /\ UNCHANGED simVars

\* One distance taken from an agent to the centre of a disease
CallDiseaseDistance ==
    /\ h_call = NoCall
    /\ \E a \in Positions, b \in Positions :
         /\ h_call' = [op |-> "disease_distance", a |-> a, b |-> b]
         /\ h_ret' = [dist2 |-> disease_dist2(a, b)]
    /\ UNCHANGED <<h_pred, h_prey, h_phase>>
    /\ UNCHANGED simVars

DistanceNext ==
    \/ CallUnitDistance
    \/ CallThreatDistance
    \/ CallDiseaseDistance

SpecDistance == SpawnInit /\ [][DistanceNext]_vars

\* The shorter of the two ways round an axis of the given size
ShorterDelta(u, v, size) == Min(Abs(u - v), size - Abs(u - v))

\* The square of the wrap-around distance between two positions
ToroidalDist2(a, b) ==
    ShorterDelta(a.x, b.x, Width) * ShorterDelta(a.x, b.x, Width)
    + ShorterDelta(a.y, b.y, Height) * ShorterDelta(a.y, b.y, Height)

\* C13: every distance the simulation computes between two grid positions
\* (predator to tribe unit, herbivore candidate cell to threat, disease
\* centre to agent) uses the shorter wrap-around delta on each axis, so
\* that (0, y) and (width-1, y) are at distance 1.
C13_DistancesWrap ==
    h_call.op \in {"unit_distance", "threat_distance", "disease_distance"}
    => h_ret.dist2 = ToroidalDist2(h_call.a, h_call.b)

(***************************************************************************)
(* The spatial index right after its rebuild                               *)
(***************************************************************************)

\* The agents of list that stand on cell c
Standing(list, c) == {id \in Members(list) : <<agents[id].x, agents[id].y>> = c}

\* Map m files every agent of list under its own cell, once, and has no
\* entry for a cell nobody of list stands on; building the map again gives
\* the same mapping and the same answers to the neighbour query.
IndexExact(m, list) ==
    /\ \A c \in Cells :
         /\ Members(CellList(m, c)) = Standing(list, c)
         /\ Len(CellList(m, c)) = Cardinality(Standing(list, c))
         /\ HasKey(m, c) <=> Standing(list, c) # {}
    /\ BuildMap(list, agents) = m
    /\ \A id \in Members(list) :
         SameSpeciesNeighbours(BuildMap(list, agents), agents, id,
                               agents[id].x, agents[id].y)
         = SameSpeciesNeighbours(m, agents, id, agents[id].x, agents[id].y)

\* C14: right after a group rebuilds its spatial index at the start of its
\* update, the index maps every cell to exactly the agents of the group on
\* that cell (each agent in one entry, no entry for an empty cell), and a
\* second rebuild yields the same mapping and neighbour-query results.
C14_IndexExactAfterRebuild ==
    /\ last.step = "advance_turn" => IndexExact(herb_map, herbivores)
    /\ last.step = "p_start" => IndexExact(pred_map, predators)

\* C14 happens: the herbivore index was rebuilt in the second turn with two
\* herbivores filed under one cell.
C14_Witness ==
    /\ last.step = "advance_turn"
    /\ turn = 2
    /\ \E c \in Cells : Len(CellList(herb_map, c)) >= 2

(***************************************************************************)
(* The live lists across the groups                                        *)
(***************************************************************************)

\* The positions of advance_turn inside PredatorSystem.update and inside
\* EventsEcologySystem.update
PredatorUpdatePcs == {"p_start", "p_age", "p_backup", "p_behave", "p_prune"}
EcologyUpdatePcs == {"eco_disease", "eco_disaster", "eco_generate"}

\* C15: PredatorSystem.update and EventsEcologySystem.update leave the
\* membership and order of the herbivore list unchanged, and the ecology
\* update leaves the predator list unchanged; a cross-group kill only takes
\* the victim's health to 0, and the victim leaves its list at its own
\* group's next prune.
C15_ForeignListsUntouched ==
    [][/\ pc \in PredatorUpdatePcs \cup EcologyUpdatePcs => herbivores' = herbivores
       /\ pc \in EcologyUpdatePcs => predators' = predators
       /\ pc = "h_prune" =>
            \A id \in Members(herbivores) :
               ~Alive(agents[id]) => id \notin Members(herbivores')
       /\ pc = "p_prune" =>
            \A id \in Members(predators) :
               ~Alive(agents[id]) => id \notin Members(predators')]_vars

\* C15 happens: a predator has just killed a herbivore, which is still in
\* the herbivore list with health 0.
C15_Witness ==
    /\ last.step = "p_behave"
    /\ Len(last.before) = 1
    /\ last.before[1] \in Members(herbivores)
    /\ agents[last.before[1]].combat_stats.current_hp = 0
    /\ agents[last.before[1]].cause_of_death = "predation"

(***************************************************************************)
(* The logs the core appends to: GameState.statistics['event_log'] and     *)
(* CombatResolver.combat_log                                               *)
(***************************************************************************)

\* Bounds: how many messages are logged and how many hunts are resolved.
MaxMessages == 52
MaxHunts == 52

\* GameState.add_event_log: the entry is appended, then the oldest entry is
\* popped when the log holds more than 50.
add_event_log(log, entry) ==
    LET appended == Append(log, entry)
    IN  IF Len(appended) > 50 THEN Tail(appended) ELSE appended

\* self.combat_log after resolve_predator_hunt: a record is appended on a
\* kill (lines 102-109).  Nothing else of the turn touches the log:
\* get_combat_log, which can clear it, has no caller in the core.
log_kill(log, logged) ==
    IF logged THEN Append(log, [type |-> "kill"]) ELSE log

\* No message logged and no hunt resolved yet
LogsInit ==
    /\ SimIdle
    /\ h_pred = CombatStats(40, 40, 18, 5, 9, 10, 90)
    /\ h_prey = CombatStats(30, 1, 5, 3, 8, 20, 100)
    /\ h_call = NoCall
    /\ h_ret = [event_log |-> <<>>, combat_log |-> <<>>, messages |-> 0, hunts |-> 0]
    /\ h_phase = "done"

\* add_event_log(message): the messages are numbered as they come
CallAddEventLog ==
    /\ h_ret.messages < MaxMessages
    /\ h_call' = [op |-> "add_event_log"]
    /\ h_ret' = [h_ret EXCEPT !.event_log = add_event_log(@, h_ret.messages + 1),
                              !.messages = @ + 1]
    /\ UNCHANGED <<h_pred, h_prey, h_phase>>
    /\ UNCHANGED simVars

\* One hunt of the turn pipeline, by a wolf on a deer at 1 health on
\* grassland, the attack hitting or missing
CallLoggedHunt ==
    /\ h_ret.hunts < MaxHunts
    /\ \E hit_roll \in {0, 99} :
         LET r == resolve_predator_hunt(h_pred, h_prey, 3, 0, 5, hit_roll, 0)
         IN  h_ret' = [h_ret EXCEPT !.combat_log = log_kill(@, r.logged),
                                    !.hunts = @ + 1]
    /\ h_call' = [op |-> "resolve_predator_hunt"]
    /\ UNCHANGED <<h_pred, h_prey, h_phase>>
    /\ UNCHANGED simVars

LogsNext ==
    \/ CallAddEventLog
    \/ CallLoggedHunt

SpecLogs == LogsInit /\ [][LogsNext]_vars

\* The event log holds at most 50 entries, the most recent ones, in the
\* order they were added.
EventLogBounded ==
    /\ Len(h_ret.event_log) <= 50
    /\ Len(h_ret.event_log) = Min(50, h_ret.messages)
    /\ \A i \in 1..Len(h_ret.event_log) :
         h_ret.event_log[i] = h_ret.messages - Len(h_ret.event_log) + i

\* The kill log stays within the size the event log is kept to.
CombatLogBounded == Len(h_ret.combat_log) <= 50

\* C16: every log the core appends event records to stays bounded over any
\* number of ticks: the event log never holds more than 50 entries and
\* always holds the most recent ones in insertion order, and the kill log
\* of the combat resolver does not grow without bound.
C16_LogsBounded == EventLogBounded /\ CombatLogBounded

(***************************************************************************)
(* The species templates and the CombatStats objects of the agents.  An    *)
(* agent holds a reference to its CombatStats; the template's CombatStats  *)
(* is referred to by its species key, an agent's own by an object name.    *)
(* movement_stats and env_stats of an agent are the template's records     *)
(* themselves; the pipeline only reads them.                               *)
(***************************************************************************)

\* Bound: the operations applied one after another to the agents.
MaxTemplateOps == 3

TemplateSpecies == {"wolf", "deer"}
StatsObjects == {"o1", "o2", "o3"}

\* A plausible slip in create_stats_from_template: template['stats'] itself
\* is handed to the agent.
template_stats_itself(species, fresh) == species

\* The object create_stats_from_template returns: "return CombatStats(...)",
\* a new object.
new_stats_object(species, fresh) == fresh

\* The CombatStats a reference stands for
Deref(st, ref) ==
    IF ref \in TemplateSpecies THEN st.templates[ref].stats ELSE st.objects[ref]

\* An assignment through a reference
Store(st, ref, stats) ==
    IF ref \in TemplateSpecies
    THEN [st EXCEPT !.templates[ref].stats = stats]
    ELSE [st EXCEPT !.objects[ref] = stats]

\* Animal.__init__ / Predator.__init__: self.combat_stats =
\* create_stats_from_template(template); the state afterwards and the
\* reference the agent holds.
Construct(st, species, fresh) ==
    LET ref == new_stats_object(species, fresh)
    IN  [st |-> Store(st, ref, create_stats_from_template(st.templates[species])),
         ref |-> ref]

\* The agent record of the turn pipeline whose combat_stats is the object
\* behind the reference
AgentAt(st, kind, species, ref) ==
    [NewAgent(kind, 0, 0, species) EXCEPT !.combat_stats = Deref(st, ref)]

\* HERBIVORE_STATS and PREDATOR_STATS at load time, no agent made yet
Loaded ==
    [templates |-> [s \in TemplateSpecies |-> Template(s)],
     objects |-> [o \in StatsObjects |-> Template("deer").stats],
     predator |-> "none", prey |-> "none", offspring |-> "none", ops |-> 0]

\* spawn_initial_populations: one wolf and one deer, each with its starting
\* health written through its reference
TemplatesInit ==
    /\ SimIdle
    /\ h_pred = CombatStats(40, 40, 18, 5, 9, 10, 90)
    /\ h_prey = CombatStats(30, 30, 5, 3, 8, 20, 100)
    /\ h_call = NoCall
    /\ h_phase = "done"
    /\ \E permille \in StartHpPermille :
         LET p == Construct(Loaded, "wolf", "o1")
             p1 == Store(p.st, p.ref,
                         SpawnedAt("predator", "wolf", <<0, 0>>, permille).combat_stats)
             q == Construct(p1, "deer", "o2")
             q1 == Store(q.st, q.ref,
                         SpawnedAt("herbivore", "deer", <<0, 0>>, permille).combat_stats)
         IN  h_ret = [q1 EXCEPT !.predator = p.ref, !.prey = q.ref]

\* The aging phase of AnimalSystem.update on the deer
CallAgeHerbivore ==
    /\ h_ret.ops < MaxTemplateOps
    /\ \E fraction_roll \in BOOLEAN, local_temp \in {-3, 10} :
         LET a == AgeHerbivore(AgentAt(h_ret, "herbivore", "deer", h_ret.prey),
                               fraction_roll, FALSE, local_temp)
         IN  h_ret' = [Store(h_ret, h_ret.prey, a.combat_stats) EXCEPT !.ops = @ + 1]
    /\ h_call' = [op |-> "age_herbivore"]
    /\ UNCHANGED <<h_pred, h_prey, h_phase>>
    /\ UNCHANGED simVars

\* The aging phase of PredatorSystem.update on the wolf
CallAgePredator ==
    /\ h_ret.ops < MaxTemplateOps
    /\ \E local_temp \in {-3, 10}, local_density \in {1, 3} :
         LET a == AgePredator(AgentAt(h_ret, "predator", "wolf", h_ret.predator),
                              FALSE, local_temp, local_density)
         IN  h_ret' = [Store(h_ret, h_ret.predator, a.combat_stats) EXCEPT !.ops = @ + 1]
    /\ h_call' = [op |-> "age_predator"]
    /\ UNCHANGED <<h_pred, h_prey, h_phase>>
    /\ UNCHANGED simVars

\* _feed_animal: resolve_herbivore_feeding heals the deer
CallFeed ==
    /\ h_ret.ops < MaxTemplateOps
    /\ \E vegetation_density \in {0, 90} :
         LET r == resolve_herbivore_feeding(Deref(h_ret, h_ret.prey), vegetation_density)
         IN  h_ret' = [Store(h_ret, h_ret.prey, r.stats) EXCEPT !.ops = @ + 1]
    /\ h_call' = [op |-> "resolve_herbivore_feeding"]
    /\ UNCHANGED <<h_pred, h_prey, h_phase>>
    /\ UNCHANGED simVars

\* _attempt_hunt: resolve_predator_hunt of the wolf on the deer, with the
\* wolf template's pack_bonus
CallTemplateHunt ==
    /\ h_ret.ops < MaxTemplateOps
    /\ \E pack_members \in 0..1, hit_roll \in {0, 99} :
         LET r == resolve_predator_hunt(Deref(h_ret, h_ret.predator),
                                        Deref(h_ret, h_ret.prey),
                                        h_ret.templates["wolf"].pack_bonus,
                                        pack_members, 5, hit_roll, 0)
             st1 == Store(h_ret, h_ret.predator, r.pred)
         IN  /\ h_ret' = [Store(st1, h_ret.prey, r.prey) EXCEPT !.ops = @ + 1]
             /\ h_call' = [op |-> "resolve_predator_hunt", pack_members |-> pack_members,
                           kill |-> r.kill]
    /\ UNCHANGED <<h_pred, h_prey, h_phase>>
    /\ UNCHANGED simVars

\* _reproduce_animal / _reproduce_predator with a mate nearby: one
\* offspring is constructed and given half its health, the parent pays
CallReproduce ==
    /\ h_ret.ops < MaxTemplateOps
    /\ \E kind \in {"herbivore", "predator"} :
         LET species == IF kind = "predator" THEN "wolf" ELSE "deer"
             parent == IF kind = "predator" THEN h_ret.predator ELSE h_ret.prey
             c == Construct(h_ret, species, "o3")
             baby == Store(c.st, c.ref,
                           Offspring(AgentAt(c.st, kind, species, c.ref)).combat_stats)
             paid == PayReproduction(AgentAt(baby, kind, species, parent), 6)
         IN  h_ret' = [Store(baby, parent, paid.combat_stats)
                         EXCEPT !.offspring = c.ref, !.ops = @ + 1]
    /\ h_call' = [op |-> "reproduce"]
    /\ UNCHANGED <<h_pred, h_prey, h_phase>>
    /\ UNCHANGED simVars

TemplatesNext ==
    \/ CallAgeHerbivore
    \/ CallAgePredator
    \/ CallFeed
    \/ CallTemplateHunt
    \/ CallReproduce

SpecTemplates == TemplatesInit /\ [][TemplatesNext]_vars

\* C17: no operation of the tick pipeline mutates a species template:
\* after any sequence of updates, hunts and reproductions every field of
\* every template (its CombatStats, movement and environment values
\* included) equals its value at load time.
C17_TemplatesNeverMutated ==
    \A s \in TemplateSpecies : h_ret.templates[s] = Template(s)

\* A wolf with a pack member has just killed the deer, after an offspring
\* was constructed and the wolf itself lost health.
C17_Witness ==
    /\ h_call.op = "resolve_predator_hunt"
    /\ h_call.pack_members = 1
    /\ h_call.kill
    /\ h_ret.offspring # "none"
    /\ Deref(h_ret, h_ret.prey).current_hp = 0
    /\ Deref(h_ret, h_ret.predator).current_hp < Template("wolf").stats.current_hp
    /\ C17_TemplatesNeverMutated

(***************************************************************************)
(* CombatStats.heal                                                        *)
(***************************************************************************)

\* C18: CombatStats.heal(amount) with amount >= 0 sets current_hp to
\* min(max_hp, current_hp + amount) and changes no other field.
C18_HealExact ==
    (h_call.op = "heal" /\ h_call.amount >= 0)
    => LET before == h_call.prey
           sum == before.current_hp + h_call.amount
       IN  /\ h_prey.current_hp = IF sum <= before.max_hp THEN sum ELSE before.max_hp
           /\ h_prey.max_hp = before.max_hp
           /\ h_prey.attack = before.attack
           /\ h_prey.defense = before.defense
           /\ h_prey.speed = before.speed
           /\ h_prey.evasion = before.evasion
           /\ h_prey.accuracy = before.accuracy
           /\ DOMAIN h_prey = DOMAIN before

\* heal(3) took a creature from 1 health to 4, below its max_hp of 30.
C18_Witness ==
    /\ h_call.op = "heal"
    /\ h_call.amount = 3
    /\ h_call.prey.current_hp = 1
    /\ h_call.prey.max_hp = 30
    /\ h_prey.current_hp = 4

(***************************************************************************)
(* The dead in the aging and behaviour phases                              *)
(***************************************************************************)

\* The agents of the running loop's list that the loop has not come to yet
Pending(list) == {list[k] : k \in (idx + 1)..Len(list)}

\* C19: an agent whose health is 0 at the end of the aging phase of its
\* group's update, or was already 0 when the update began, performs no
\* movement, feeding, hunting or reproduction in that update and changes
\* position, vegetation and the offspring list in no way.  Step by step:
\* an aging step on an agent already at 0 changes nothing and leads to no
\* bear backup; a backup step that leaves its bear at 0 has left the
\* vegetation and the bear's position alone; the behaviour steps of the
\* others leave an agent the loop has not come to as it is; and the
\* behaviour step of an agent at 0 moves, feeds, hunts and bears nothing.
C19_DeadDoNothing ==
    [][/\ (last'.step \in {"h_age", "p_age"} /\ ~Alive(agents[last'.id]))
          => /\ agents' = agents
             /\ vegetation' = vegetation
             /\ new_offspring' = new_offspring
             /\ pc' = pc
       /\ (last'.step = "p_backup" /\ ~Alive(agents'[last'.id]))
          => /\ vegetation' = vegetation
             /\ new_offspring' = new_offspring
             /\ agents'[last'.id].x = agents[last'.id].x
             /\ agents'[last'.id].y = agents[last'.id].y
       /\ last'.step = "h_behave"
          => \A id \in Pending(herbivores) : agents'[id] = agents[id]
       /\ last'.step = "p_behave"
          => \A id \in Pending(predators) : agents'[id] = agents[id]
       /\ (last'.step \in {"h_behave", "p_behave"} /\ ~Alive(agents[last'.id]))
          => /\ agents' = agents
             /\ vegetation' = vegetation
             /\ new_offspring' = new_offspring
             /\ herbivores' = herbivores
             /\ last'.before = <<>>
             /\ last'.at = <<>>]_vars

\* The behaviour loop has just come to a herbivore that starved in the
\* aging phase of this update, on a cell with vegetation to eat and with
\* living herbivores around it.
C19_Witness ==
    /\ last.step = "h_behave"
    /\ ~Alive(agents[last.id])
    /\ agents[last.id].cause_of_death = "starvation"
    /\ vegetation[<<agents[last.id].x, agents[last.id].y>>] >= 15
    /\ \E id \in Members(herbivores) : Alive(agents[id])

(***************************************************************************)
(* The aging phase on one agent: the "Age and metabolism" iteration of     *)
(* either update, on agents of every species at the ages, healths and      *)
(* temperatures where the old-age roll, the cold, the heat and the         *)
(* metabolism each decide.                                                 *)
(***************************************************************************)

\* The healths, as current_hp, the aging agents start the tick with
AgingHealths(species) == {1, 2, 4, Template(species).stats.max_hp}

\* Their ages before the tick: young, past 40, and around max_age
AgingAges(species) ==
    {10, 41, Template(species).max_age - 1, Template(species).max_age,
     Template(species).max_age + 47}

\* world.temperature at the agent's cell, in 1/20
AgingTemperatures == {0, 5, 7, 12, 16, 20}

\* A living agent with no cause of death recorded
AgingAgent(kind, species, hp, age) ==
    [NewAgent(kind, 0, 0, species) EXCEPT !.combat_stats.current_hp = hp,
                                          !.age = age,
                                          !.reproductive_cooldown = 2]

\* One iteration of the aging loop of AnimalSystem.update
CallHerbivoreAging ==
    /\ h_call = NoCall
    /\ \E species \in HerbivoreSpecies, local_temp \in AgingTemperatures,
          fraction_roll \in BOOLEAN :
         \E hp \in AgingHealths(species), age \in AgingAges(species) :
           LET a == AgingAgent("herbivore", species, hp, age)
           IN  \E old_age_roll \in OldAgeRolls(a) :
                 LET b == AgeHerbivore(a, fraction_roll, old_age_roll, local_temp)
                 IN  /\ h_call' = [op |-> "age_herbivore", agent |-> a,
                                   local_temp |-> local_temp,
                                   old_age_roll |-> old_age_roll,
                                   metabolism_cost |->
                                       HerbivoreMetabolismCost(Aged(a), fraction_roll)]
                     /\ h_ret' = [aged |-> b, agent |-> b]
    /\ UNCHANGED <<h_pred, h_prey, h_phase>>
    /\ UNCHANGED simVars

\* One iteration of the aging loop of PredatorSystem.update: up to the
\* metabolism damage (aged), then the bear backup and the cooldowns unless
\* the old-age roll ended the iteration (agent).
CallPredatorAging ==
    /\ h_call = NoCall
    /\ \E species \in PredatorSpecies, local_temp \in AgingTemperatures,
          local_density \in {1, 3}, veg \in {0, 150} :
         \E hp \in AgingHealths(species), age \in AgingAges(species) :
           LET a == AgingAgent("predator", species, hp, age)
           IN  \E old_age_roll \in OldAgeRolls(a) :
                 LET b == AgePredator(a, old_age_roll, local_temp, local_density)
                 IN  /\ h_call' = [op |-> "age_predator", agent |-> a,
                                   local_temp |-> local_temp,
                                   old_age_roll |-> old_age_roll,
                                   metabolism_cost |->
                                       PredatorMetabolismCost(Aged(a), local_density)]
                     /\ h_ret' = [aged |-> b,
                                  agent |-> IF OldAgeDeath(a, old_age_roll) THEN b
                                            ELSE FinishAgingPredator(b, veg).agent]
    /\ UNCHANGED <<h_pred, h_prey, h_phase>>
    /\ UNCHANGED simVars

AgingNext ==
    \/ CallHerbivoreAging
    \/ CallPredatorAging

SpecAging == SpawnInit /\ [][AgingNext]_vars

\* The raw damage of the temperature step at temperature t: cold below
\* min_temp (doubled for the cold-blooded), heat above max_temp
StressDamage(a, t) ==
    LET env == Template(a.species)
    IN  IF t < env.min_temp
        THEN (IF env.cold_blooded THEN 2 ELSE 1) * (env.min_temp - t)
        ELSE IF t > env.max_temp THEN t - env.max_temp ELSE 0

\* The temperature step alone takes the agent to 0
StressKills(a, t) ==
    /\ StressDamage(a, t) > 0
    /\ take_damage(a.combat_stats, StressDamage(a, t)).stats.current_hp = 0

\* C20: in the aging phase, for an agent with no cause of death recorded
\* at the start of the tick, the recorded cause is that of the first step
\* that brought its health to 0, in the order old-age roll, cold stress,
\* heat stress, metabolism: 'old_age' if the old-age roll killed it, else
\* 'cold', else 'heat', else 'starvation' (and none if no step did); a
\* later step of the iteration never replaces the cause.
C20_FirstKillingStepNamesCause ==
    h_call.op \in {"age_herbivore", "age_predator"}
    => LET a == h_call.agent
           b == h_ret.aged
           env == Template(a.species)
           t == h_call.local_temp
           old == h_call.old_age_roll /\ a.age + 1 > env.max_age
       IN  /\ b.cause_of_death =
                 IF old THEN "old_age"
                 ELSE IF StressKills(a, t)
                      THEN (IF t < env.min_temp THEN "cold" ELSE "heat")
                      ELSE IF b.combat_stats.current_hp = 0 THEN "starvation"
                           ELSE "none"
           /\ old => b.combat_stats.current_hp = 0
           /\ h_ret.agent.cause_of_death = b.cause_of_death

\* The cold took a cold-blooded agent to 0 before its metabolism was
\* charged, and the cause recorded is the cold.
C20_Witness ==
    /\ h_call.op = "age_herbivore"
    /\ ~h_call.old_age_roll
    /\ h_call.local_temp < Template(h_call.agent.species).min_temp
    /\ Template(h_call.agent.species).cold_blooded
    /\ StressKills(h_call.agent, h_call.local_temp)
    /\ h_ret.aged.combat_stats.current_hp = 0
    /\ h_ret.aged.cause_of_death = "cold"

(***************************************************************************)
(* Starvation                                                              *)
(***************************************************************************)

\* C21: an agent whose per-tick metabolism cost exceeds its current health
\* and which gets no feeding opportunity reaches health 0 within
\* ceil(current_health / metabolism_cost) ticks, which is one tick, and is
\* recorded with cause 'starvation'.  Stated for the aging iterations in
\* which the old-age roll does not strike and the temperature is within
\* the species' range, so that the metabolism is the only damage.
C21_StarvesWithinOneTick ==
    (/\ h_call.op \in {"age_herbivore", "age_predator"}
     /\ ~(h_call.old_age_roll
          /\ h_call.agent.age + 1 > Template(h_call.agent.species).max_age)
     /\ StressDamage(h_call.agent, h_call.local_temp) = 0
     /\ h_call.metabolism_cost > h_call.agent.combat_stats.current_hp)
    => /\ h_ret.aged.combat_stats.current_hp = 0
       /\ h_ret.aged.cause_of_death = "starvation"

(***************************************************************************)
(* The hit roll                                                            *)
(***************************************************************************)

\* What the hit roll of the predator's attack in a hunt is compared with:
\* the predator's accuracy as it stands at the attack (the ambush bonus of
\* 15 on biomes 6, 7, 8 included) plus the terrain accuracy modifier,
\* minus the prey's evasion, flight bonus and terrain evasion modifier.
AttackDifference(call) ==
    LET mods == TERRAIN_MODIFIERS(call.terrain)
        cover == call.terrain \in {6, 7, 8}
        flee == IF call.prey.speed > call.pred.speed /\ call.prey.attack < 10
                THEN 2 * (call.prey.speed - call.pred.speed) ELSE 0
    IN  (call.pred.accuracy + (IF cover THEN 15 ELSE 0) + mods.accuracy)
        - (call.prey.evasion + (IF cover THEN flee \div 2 ELSE flee) + mods.evasion)

\* The same for the prey's counter-attack on the predator
CounterDifference(call) ==
    LET mods == TERRAIN_MODIFIERS(call.terrain)
    IN  (call.prey.accuracy + mods.accuracy) - (call.pred.evasion + mods.evasion)

\* C22: an attack in calculate_combat_damage hits if and only if the roll
\* in [0,100) is strictly less than (attacker accuracy + terrain accuracy
\* modifier) - (defender evasion + terrain evasion modifier, with the
\* flight bonus for a hunt); a roll equal to the difference is a miss, and
\* on a miss the defender's health is unchanged and the damage is 0.
C22_HitIffRollBelowDifference ==
    h_call.op = "resolve_predator_hunt"
    => /\ h_ret.hit <=> h_call.hit_roll < AttackDifference(h_call)
       /\ ~h_ret.hit => /\ h_prey.current_hp = h_call.prey.current_hp
                        /\ h_ret.damage = 0
       /\ h_ret.counter
          => /\ h_ret.counter_hit <=> h_call.counter_roll < CounterDifference(h_call)
             /\ ~h_ret.counter_hit => h_pred.current_hp = h_call.pred.current_hp

\* The roll came out equal to a difference inside the range of the roll,
\* and the attack on a living prey missed.
C22_Witness ==
    /\ h_call.op = "resolve_predator_hunt"
    /\ h_call.hit_roll = AttackDifference(h_call)
    /\ h_call.hit_roll \in 1..98
    /\ h_call.prey.current_hp > 0
    /\ ~h_ret.hit
    /\ h_prey.current_hp = h_call.prey.current_hp

(***************************************************************************)
(* The counter-attack                                                      *)
(***************************************************************************)

\* What one attack of raw damage takes from a creature of the given stats
OneAttackTakes(stats, raw) ==
    LET mitigated == IF raw - stats.defense >= 1 THEN raw - stats.defense ELSE 1
    IN  IF mitigated <= stats.current_hp THEN mitigated ELSE stats.current_hp

\* C23: within one resolve_predator_hunt call a counter-attack on the
\* predator is resolved if and only if the prey is still alive after the
\* predator's attack, the prey's attack is >= 10 and the predator's attack
\* hit; at most one counter-attack occurs, it meets the predator's
\* un-boosted stats, and it triggers no further attack by either side: the
\* predator loses what one attack of the prey takes (nothing without a
\* counter-attack or when it misses) and the prey loses what the
\* predator's one attack dealt.
C23_SingleCounterAttack ==
    h_call.op = "resolve_predator_hunt"
    => LET pred == h_call.pred
           prey == h_call.prey
           mods == TERRAIN_MODIFIERS(h_call.terrain)
       IN  /\ h_ret.counter <=> (h_prey.current_hp > 0 /\ prey.attack >= 10 /\ h_ret.hit)
           /\ h_ret.counter_hit => h_ret.counter
           /\ h_pred.current_hp =
                 IF h_ret.counter_hit
                 THEN pred.current_hp - OneAttackTakes(pred, prey.attack + mods.damage)
                 ELSE pred.current_hp
           /\ h_pred.attack = pred.attack
           /\ h_pred.accuracy = pred.accuracy
           /\ h_prey.current_hp = prey.current_hp - h_ret.damage
           /\ h_ret.damage =
                 IF h_ret.hit
                 THEN OneAttackTakes(prey, pred.attack + mods.damage
                                           + (IF h_call.pack_members > 0
                                              THEN h_call.pack_bonus * h_call.pack_members
                                              ELSE 0))
                 ELSE 0

\* A bison that survived the hit of a wolf with two pack members struck
\* back and hurt the wolf.
C23_Witness ==
    /\ h_call.op = "resolve_predator_hunt"
    /\ h_call.pack_members = 2
    /\ h_call.pack_bonus = 3
    /\ h_ret.hit
    /\ h_ret.counter
    /\ h_ret.counter_hit
    /\ h_prey.current_hp > 0
    /\ h_pred.current_hp < h_call.pred.current_hp

(***************************************************************************)
(* Flight and ambush: resolve_predator_hunt between a predator and a prey  *)
(* fresh from their species templates, on every biome                      *)
(***************************************************************************)

\* One hunt of a predator of any species on a herbivore of any species
CallHuntOnBiome ==
    /\ h_call = NoCall
    /\ \E pred_species \in PredatorSpecies, prey_species \in HerbivoreSpecies,
          terrain \in Biomes, hit_roll \in {0, 99} :
         LET pred == create_stats_from_template(Template(pred_species))
             prey == create_stats_from_template(Template(prey_species))
             r == resolve_predator_hunt(pred, prey, Template(pred_species).pack_bonus,
                                        0, terrain, hit_roll, 0)
         IN  /\ h_call' = [op |-> "resolve_predator_hunt", pred |-> pred, prey |-> prey,
                           terrain |-> terrain, hit_roll |-> hit_roll]
             /\ h_ret' = r
    /\ UNCHANGED <<h_pred, h_prey, h_phase>>
    /\ UNCHANGED simVars

SpecFlight == SpawnInit /\ [][CallHuntOnBiome]_vars

\* C24: in resolve_predator_hunt the prey's temporary evasion bonus is
\* 2 x (prey speed - predator speed) when the prey is faster and its attack
\* is below 10, and 0 otherwise; on biome 6, 7 or 8 the bonus is halved
\* (rounded toward zero) and the predator gets +15 accuracy, for this
\* attack only; on any other biome neither adjustment is applied.
C24_FlightAndAmbush ==
    h_call.op = "resolve_predator_hunt"
    => LET pred == h_call.pred
           prey == h_call.prey
           flight == IF prey.speed > pred.speed /\ prey.attack < 10
                     THEN 2 * (prey.speed - pred.speed) ELSE 0
           cover == h_call.terrain = 6 \/ h_call.terrain = 7 \/ h_call.terrain = 8
       IN  /\ h_ret.attack_evasion - prey.evasion
                = IF cover THEN flight \div 2 ELSE flight
           /\ h_ret.attack_accuracy - pred.accuracy = IF cover THEN 15 ELSE 0
           /\ h_ret.pred.accuracy = pred.accuracy
           /\ h_ret.prey.evasion = prey.evasion

\* A gazelle (speed 10) fled from a crocodile (speed 4) in the taiga: the
\* bonus of 12 was halved to 6 and the crocodile's accuracy raised by 15.
C24_Witness ==
    /\ h_call.op = "resolve_predator_hunt"
    /\ h_call.terrain = 8
    /\ h_call.prey.speed = 10
    /\ h_call.pred.speed = 4
    /\ h_call.prey.attack < 10
    /\ h_ret.attack_evasion = h_call.prey.evasion + 6
    /\ h_ret.attack_accuracy = h_call.pred.accuracy + 15

(***************************************************************************)
(* AnimalSystem._feed_animal on one herbivore: the vegetation of its cell  *)
(* in 1/300, the insect density of its cell in 1/1000                      *)
(***************************************************************************)

\* InsectSystem.consume(x, y, amount): what is taken from the available
\* density
insects_consume(available, amount) == Min(available, amount)

\* _feed_animal.  A frog eats insects first (the ecology system and its
\* insects are always there in a running game) and, if it got any, gains
\* energy 2.0 * consumed and returns; every other feeding goes through
\* resolve_herbivore_feeding, and what was consumed is taken from the
\* cell's vegetation.
feed_animal(a, veg, insects) ==
    LET eaten == insects_consume(insects, 100)
    IN  IF a.species = "frog" /\ eaten > 0
        THEN [agent |-> gain_energy(a, 2 * eaten), veg |-> veg,
              insects |-> insects - eaten, consumed |-> 0]
        ELSE LET r == resolve_herbivore_feeding(a.combat_stats, veg)
             IN  [agent |-> [a EXCEPT !.combat_stats = r.stats],
                  veg |-> IF r.consumed > 0 THEN veg - r.consumed ELSE veg,
                  insects |-> IF a.species = "frog" THEN insects - eaten ELSE insects,
                  consumed |-> r.consumed]

\* The healths a feeding herbivore has: nearly dead, 2 and 7 below full,
\* and full
FeedingHealths(species) ==
    {hp \in {1, Template(species).stats.max_hp - 7, Template(species).stats.max_hp - 2,
             Template(species).stats.max_hp} : hp >= 1}

\* Vegetation densities around the threshold 0.05 = 15 and the cap 0.3 = 90
FeedingDensities == {0, 14, 15, 40, 89, 90, 91, 300}

\* One call of _feed_animal
CallFeedAnimal ==
    /\ h_call = NoCall
    /\ \E species \in HerbivoreSpecies, veg \in FeedingDensities,
          insects \in {0, 50, 100, 400} :
         \E hp \in FeedingHealths(species) :
           LET a == [NewAgent("herbivore", 0, 0, species)
                        EXCEPT !.combat_stats.current_hp = hp]
           IN  /\ h_call' = [op |-> "feed_animal", agent |-> a, veg |-> veg,
                             insects |-> insects]
               /\ h_ret' = feed_animal(a, veg, insects)
    /\ UNCHANGED <<h_pred, h_prey, h_phase>>
    /\ UNCHANGED simVars

SpecFeeding == SpawnInit /\ [][CallFeedAnimal]_vars

\* C25: herbivore feeding consumes nothing and changes nothing when the
\* cell's vegetation density is below 0.05; otherwise the consumed amount
\* is min(density, 0.3, (max_hp - current_hp) / food_value), the herbivore
\* is healed by floor(consumed x food_value), and the cell's vegetation is
\* reduced by exactly the consumed amount, so that it never becomes
\* negative and a herbivore at full health consumes 0.
C25_FeedingExact ==
    h_call.op = "feed_animal"
    => LET a == h_call.agent
           hunger == a.combat_stats.max_hp - a.combat_stats.current_hp
           least == IF h_call.veg <= 90 THEN h_call.veg ELSE 90
           consumed == IF hunger * FoodUnitsPerHP <= least
                       THEN hunger * FoodUnitsPerHP ELSE least
       IN  IF h_call.veg < 15
           THEN /\ h_ret.agent = a
                /\ h_ret.veg = h_call.veg
           ELSE /\ h_ret.veg = h_call.veg - consumed
                /\ h_ret.veg >= 0
                /\ h_ret.agent = [a EXCEPT !.combat_stats.current_hp =
                                     @ + consumed \div FoodUnitsPerHP]
                /\ hunger = 0 => h_ret.veg = h_call.veg

(***************************************************************************)
(* One reproduction with a mate nearby: _reproduce_animal and              *)
(* _reproduce_predator on a parent of any species                          *)
(***************************************************************************)

\* The parent's health when it reproduces: at its reproduction threshold
\* or full
BreedingHealths(species) ==
    {Template(species).reproduction_threshold, Template(species).stats.max_hp}

\* The survival draws the reproduction of an agent of this kind makes
litter_size(kind, species) ==
    IF kind = "predator" THEN predator_litter_size(species)
    ELSE herbivore_litter_size(species)

\* One reproduction: draws survival draws, of which born come out below
\* the survival probability; the parent pays the cost and gets its
\* cooldown (6 for a herbivore, 8 for a predator).
CallReproduceLitter ==
    /\ h_call = NoCall
    /\ \E kind \in {"herbivore", "predator"} :
         \E species \in SpeciesOf(kind) :
           \E hp \in BreedingHealths(species), born \in 0..litter_size(kind, species) :
             LET parent == [NewAgent(kind, 0, 0, species)
                               EXCEPT !.combat_stats.current_hp = hp, !.age = 12]
             IN  /\ h_call' = [op |-> "reproduce_litter", parent |-> parent]
                 /\ h_ret' = [draws |-> litter_size(kind, species),
                              offspring |-> Copies(Offspring(parent), born),
                              parent |-> PayReproduction(parent,
                                            IF kind = "predator" THEN 8 ELSE 6)]
    /\ UNCHANGED <<h_pred, h_prey, h_phase>>
    /\ UNCHANGED simVars

SpecLitter == SpawnInit /\ [][CallReproduceLitter]_vars

\* C26: a reproducing agent makes exactly its species template's
\* offspring_count survival draws, so that one reproduction yields between
\* 0 and offspring_count offspring, for herbivores and predators alike.
C26_DrawsAreOffspringCount ==
    h_call.op = "reproduce_litter"
    => /\ h_ret.draws = Template(h_call.parent.species).offspring_count
       /\ Len(h_ret.offspring) <= Template(h_call.parent.species).offspring_count

(***************************************************************************)
(* EventsEcologySystem._update_scavengers: one update, the loop            *)
(* "for scavenger in self.scavengers" followed iteration by iteration.     *)
(* Energies are in 1/1000.  h_ret holds the list, the one carrion of the   *)
(* map, the index the loop is at and the length the list had when the      *)
(* update began.                                                           *)
(***************************************************************************)

\* Bound: the scavengers there may be.
MaxScavengers == 4

\* Scavenger(x, y, 'scavenger') with its energy set
Scavenger(x, y, energy) ==
    [x |-> x, y |-> y, energy |-> energy, age |-> 0, reproductive_cooldown |-> 0]

\* Scavenger.consume_energy / gain_energy
scavenger_consume_energy(s, amount) == [s EXCEPT !.energy = Max(0, @ - amount)]
scavenger_gain_energy(s, amount) == [s EXCEPT !.energy = Min(1000, @ + amount)]

\* The iteration up to the reproduction: age, metabolism, a step toward the
\* carrion when it holds more than 0.1 and lies elsewhere, the meal when
\* the step reached it.  Returns the scavenger and the carrion.
ScavengerForage(s, carrion) ==
    LET s1 == scavenger_consume_energy([s EXCEPT !.age = @ + 1], 60)
        found == carrion.energy > 100 /\ (carrion.x # s1.x \/ carrion.y # s1.y)
        dx == Sign(carrion.x - s1.x)
        dy == Sign(carrion.y - s1.y)
        to == Wrap(s1.x, s1.y, dx, dy)
        s2 == IF found
              THEN scavenger_consume_energy([s1 EXCEPT !.x = to[1], !.y = to[2]], 20)
              ELSE s1
        reached == found /\ s2.x = carrion.x /\ s2.y = carrion.y
        consumption == Min(carrion.energy, 400)
    IN  [scavenger |-> IF reached THEN scavenger_gain_energy(s2, consumption \div 2)
                       ELSE s2,
         carrion |-> IF reached THEN [carrion EXCEPT !.energy = @ - consumption]
                     ELSE carrion]

\* The start of an update: two scavengers of some age and energy, a
\* carrion at (2, 2)
ScavengersInit ==
    /\ SimIdle
    /\ h_pred = CombatStats(40, 40, 18, 5, 9, 10, 90)
    /\ h_prey = CombatStats(30, 30, 5, 3, 8, 20, 100)
    /\ h_phase = "done"
    /\ h_call = [op |-> "update_scavengers"]
    /\ \E c1 \in {<<0, 0>>, <<1, 2>>, <<2, 2>>}, c2 \in {<<2, 2>>, <<6, 6>>},
          age1 \in {0, 6}, age2 \in {0, 6}, e1 \in {1000, 400}, e2 \in {1000, 50},
          carrion_energy \in {0, 500} :
         h_ret = [scavengers |-> <<[Scavenger(c1[1], c1[2], e1) EXCEPT !.age = age1],
                                   [Scavenger(c2[1], c2[2], e2) EXCEPT !.age = age2]>>,
                  carrion |-> [x |-> 2, y |-> 2, energy |-> carrion_energy],
                  i |-> 1, began_with |-> 2]

\* One iteration of the loop; the offspring is appended to the list the
\* loop is running over.
ScavengerIteration ==
    /\ h_call.op = "update_scavengers"
    /\ h_ret.i <= Len(h_ret.scavengers)
    /\ LET f == ScavengerForage(h_ret.scavengers[h_ret.i], h_ret.carrion)
           s == f.scavenger
           fit == s.energy > 700 /\ s.age > 5 /\ s.reproductive_cooldown = 0
       IN  \E reproduce_roll \in BOOLEAN :
             LET born == fit /\ reproduce_roll /\ Len(h_ret.scavengers) < MaxScavengers
                 s3 == IF born THEN [s EXCEPT !.reproductive_cooldown = 8] ELSE s
                 s4 == [s3 EXCEPT !.reproductive_cooldown = IF @ > 0 THEN @ - 1 ELSE @]
                 list == [h_ret.scavengers EXCEPT ![h_ret.i] = s4]
             IN  h_ret' = [h_ret EXCEPT
                             !.scavengers = IF born
                                            THEN Append(list, Scavenger(s.x, s.y, 500))
                                            ELSE list,
                             !.carrion = f.carrion,
                             !.i = @ + 1]
    /\ UNCHANGED <<h_pred, h_prey, h_call, h_phase>>
    /\ UNCHANGED simVars

\* The loop has run off the end of the list.
ScavengersDone ==
    /\ h_call.op = "update_scavengers"
    /\ h_ret.i > Len(h_ret.scavengers)
    /\ h_call' = [op |-> "update_scavengers_done"]
    /\ UNCHANGED <<h_pred, h_prey, h_ret, h_phase>>
    /\ UNCHANGED simVars

ScavengersNext ==
    \/ ScavengerIteration
    \/ ScavengersDone

SpecScavengers == ScavengersInit /\ [][ScavengersNext]_vars

\* C27: agents born during a group's update join the live set only after
\* every existing agent has finished its behaviour phase: a newborn does
\* not age, pay metabolism, move, feed, hunt or reproduce in the update in
\* which it was born.  For the scavengers: everything in the list beyond
\* the agents the update began with is as it was born, at age 0 with
\* energy 0.5, and the loop makes no more iterations than there were
\* agents at the start.
C27_NewbornsWaitForNextUpdate ==
    /\ \A k \in (h_ret.began_with + 1)..Len(h_ret.scavengers) :
          /\ h_ret.scavengers[k].age = 0
          /\ h_ret.scavengers[k].energy = 500
    /\ h_ret.i <= h_ret.began_with + 1


\* ---------------------------------------------------------------------------
\* Movement step in isolation: one call of _move_animal or _move_predator on
\* an agent standing on a non-water cell.
\* ---------------------------------------------------------------------------

MovingHealths(species) ==
    {Template(species).stats.max_hp, Template(species).stats.max_hp \div 2}

DryCells == {c \in Cells : BiomeAt(c[1], c[2]) \notin WaterBiomes}

MovingAgent(kind, species, c, hp) ==
    [NewAgent(kind, c[1], c[2], species) EXCEPT !.combat_stats.current_hp = hp]

PreyMaps == {<<>>, <<[id |-> 1, x |-> 4, y |-> 1]>>}

CallMoveAnimal ==
    /\ h_call = NoCall
    /\ \E species \in {"deer", "rabbit", "bison"}, c \in DryCells :
       \E hp \in MovingHealths(species) :
          LET a == MovingAgent("herbivore", species, c, hp)
          IN  \E t \in HerbivoreMoveTargets(a) :
                 /\ h_call' = [op |-> "move_animal", agent |-> a]
                 /\ h_ret' = [agent |-> MovedTo(a, t)]
    /\ UNCHANGED <<simVars, h_pred, h_prey, h_phase>>

CallMovePredator ==
    /\ h_call = NoCall
    /\ \E species \in {"wolf", "bear"}, c \in DryCells, pm \in PreyMaps :
       \E hp \in MovingHealths(species) :
          LET a == MovingAgent("predator", species, c, hp)
          IN  \E t \in PredatorMoveTargets(a, pm) :
                 /\ h_call' = [op |-> "move_predator", agent |-> a, prey_map |-> pm]
                 /\ h_ret' = [agent |-> MovedTo(a, t)]
    /\ UNCHANGED <<simVars, h_pred, h_prey, h_phase>>

\* The deltas handed to move: none, one step, and more than the grid is
\* wide, in both directions
MoveDeltas ==
    {-(2 * Width + 1), -(Width + 1), -Width, -1, 0, 1, Width - 1, Width, 2 * Width + 1}

\* Animal.move / Predator.move(dx, dy, world_width, world_height)
CallMove ==
    /\ h_call = NoCall
    /\ \E kind \in {"herbivore", "predator"}, c \in Cells,
          dx \in MoveDeltas, dy \in MoveDeltas :
          LET a == NewAgent(kind, c[1], c[2], IF kind = "herbivore" THEN "deer" ELSE "wolf")
          IN  /\ h_call' = [op |-> "move", agent |-> a, dx |-> dx, dy |-> dy]
              /\ h_ret' = [agent |-> MovedTo(a, Wrap(a.x, a.y, dx, dy))]
    /\ UNCHANGED <<simVars, h_pred, h_prey, h_phase>>

MoveNext == CallMoveAnimal \/ CallMovePredator \/ CallMove

SpecMove == SpawnInit /\ [][MoveNext]_vars

MoveCalled == h_call # NoCall /\ h_call.op \in {"move_animal", "move_predator"}

\* C28: an agent of a species that cannot swim, starting the movement step on
\* a non-water cell, stands on a non-water cell after the step, whichever
\* branch of the step was taken.
C28_NonSwimmersStayDry ==
    (MoveCalled
     /\ ~Template(h_call.agent.species).can_swim
     /\ BiomeAt(h_call.agent.x, h_call.agent.y) \notin WaterBiomes)
        => BiomeAt(h_ret.agent.x, h_ret.agent.y) \notin WaterBiomes


ChangedCell == <<h_ret.agent.x, h_ret.agent.y>> # <<h_call.agent.x, h_call.agent.y>>

HealthLostMoving == h_call.agent.combat_stats.current_hp - h_ret.agent.combat_stats.current_hp

\* C30: an agent that changes cell in the movement step loses a positive
\* amount of health in that step, and an agent that stays in place loses none.
C30_MovementCostsHealth ==
    MoveCalled => IF ChangedCell THEN HealthLostMoving > 0 ELSE HealthLostMoving = 0


\* ---------------------------------------------------------------------------
\* Environmental damage in isolation: one temperature step of the aging
\* loop, one infection of _update_diseases, one visit of the blizzard loop
\* of _update_disasters, each on one living agent.
\* ---------------------------------------------------------------------------

\* "virulence = np.random.uniform(0.3, 0.8)", kept as virulence * 0.3 in 1/1000
InfectionCosts == {90, 150, 210, 240}

\* "intensity = np.random.uniform(0.5, 1.0)", in 1/10
BlizzardIntensities == {5, 7, 9}

DamagedSpecies == {"rabbit", "frog", "deer", "iguana", "wolf", "snake"}

DamagedHealths(species) ==
    {1, Template(species).stats.max_hp \div 2, Template(species).stats.max_hp}

DamagedAgent(species, hp) ==
    [NewAgent(IF species \in HerbivoreSpecies THEN "herbivore" ELSE "predator",
              0, 0, species) EXCEPT !.combat_stats.current_hp = hp]

CallTemperatureStress ==
    /\ h_call = NoCall
    /\ \E species \in DamagedSpecies, local_temp \in AgingTemperatures :
       \E hp \in DamagedHealths(species) :
          LET a == DamagedAgent(species, hp)
          IN  /\ StressDamage(a, local_temp) > 0
              /\ h_call' = [op |-> "temperature", agent |-> a,
                            amount |-> local_temp,
                            raw |-> StressDamage(a, local_temp)]
              /\ h_ret' = [agent |-> TemperatureStress(a, local_temp)]
    /\ UNCHANGED <<simVars, h_pred, h_prey, h_phase>>

CallInfect ==
    /\ h_call = NoCall
    /\ \E species \in DamagedSpecies, virulence \in InfectionCosts,
          type \in DiseaseTypes :
       \E hp \in DamagedHealths(species) :
          LET a == DamagedAgent(species, hp)
              d == Disease(0, 0, type, virulence, 5)
          IN  /\ type \in {a.kind, "all"}
              /\ h_call' = [op |-> "disease_" \o type, agent |-> a,
                            amount |-> virulence,
                            raw |-> HpFraction(a, virulence)]
              /\ h_ret' = [agent |-> Infect(a, d)]
    /\ UNCHANGED <<simVars, h_pred, h_prey, h_phase>>

CallBlizzardVisit ==
    /\ h_call = NoCall
    /\ \E species \in DamagedSpecies \cap HerbivoreSpecies,
          intensity \in BlizzardIntensities :
       \E hp \in DamagedHealths(species) :
          LET a == DamagedAgent(species, hp)
              d == NaturalDisaster(0, 0, "blizzard", intensity, 2, 8)
          IN  /\ h_call' = [op |-> "blizzard", agent |-> a,
                            amount |-> intensity * 20,
                            raw |-> HpFraction(a, intensity * 20)]
              /\ h_ret' = [agent |-> BlizzardVisit(a, d)]
    /\ UNCHANGED <<simVars, h_pred, h_prey, h_phase>>

DamageNext == CallTemperatureStress \/ CallInfect \/ CallBlizzardVisit

SpecDamage == SpawnInit /\ [][DamageNext]_vars

DamageCalled ==
    h_call.op \in {"temperature", "blizzard"} \cup {"disease_" \o t : t \in DiseaseTypes}

\* C29: an agent hit by temperature stress, an infection or a blizzard loses
\* exactly min(max(1, raw - defense), current health) for the raw damage of
\* that effect; the effect is never skipped.
C29_EnvironmentalDamageExact ==
    DamageCalled
    => h_call.agent.combat_stats.current_hp - h_ret.agent.combat_stats.current_hp
       = Min(Max(1, h_call.raw - h_call.agent.combat_stats.defense),
             h_call.agent.combat_stats.current_hp)


\* ---------------------------------------------------------------------------
\* One predator followed over several ticks of PredatorSystem.update: its
\* iteration of the aging loop, then its iteration of the behaviour loop,
\* with a deer in hunting range or not.  The predator is a lone wolf, so it
\* finds no mate and no pack.
\* ---------------------------------------------------------------------------

\* Bound: how many ticks the predator is followed
MaxTicks == 4

\* The wolf at the start: in good health, or just above the health it
\* needs to hunt; no cooldown running
RestingWolves ==
    {[NewAgent("predator", 0, 0, "wolf") EXCEPT !.combat_stats.current_hp = hp,
                                                 !.age = 12] : hp \in {7, 40}}

CooldownInit ==
    /\ SimIdle
    /\ h_pred = CombatStats(40, 40, 18, 5, 9, 10, 90)
    /\ h_prey = CombatStats(30, 30, 5, 3, 8, 20, 100)
    /\ h_call = NoCall
    /\ \E w \in RestingWolves :
          h_ret = [agent |-> w, tick |-> 0, phase |-> "age", log |-> <<>>]
    /\ h_phase = "done"

\* The predator's iteration of the aging loop in the next tick
TickAge ==
    /\ h_ret.phase = "age"
    /\ h_ret.tick < MaxTicks
    /\ LET a == h_ret.agent
       IN  \E old_age_roll \in OldAgeRolls(a) :
              LET b == AgePredator(a, old_age_roll, 12, 1)
                  c == IF ~Alive(a) THEN a
                       ELSE IF OldAgeDeath(a, old_age_roll) THEN b
                       ELSE FinishAgingPredator(b, 0).agent
              IN  /\ h_call' = [op |-> "predator_aging", agent |-> a]
                  /\ h_ret' = [h_ret EXCEPT !.agent = c, !.tick = @ + 1,
                                            !.phase = "behave"]
    /\ UNCHANGED <<simVars, h_pred, h_prey, h_phase>>

\* The predator's iteration of the behaviour loop in the same tick
TickBehave ==
    /\ h_ret.phase = "behave"
    /\ LET a == h_ret.agent
       IN  \E prey_hp \in {0, 1, 30} :
              LET ag == <<a, [NewAgent("herbivore", 1, 0, "deer")
                                 EXCEPT !.combat_stats.current_hp = prey_hp]>>
                  target == IF ~SkipsBehaviour(a) /\ can_hunt(a) /\ prey_hp > 0
                            THEN 2 ELSE 0
              IN  \E hit_roll \in HuntRolls(target) :
                     LET r == attempt_hunt(ag, 1, 2, 0, hit_roll, 0)
                         b == IF target = 0 THEN a ELSE r.agents[1]
                     IN  /\ h_call' = [op |-> "predator_behaviour", agent |-> a,
                                       target |-> target]
                         /\ h_ret' = [h_ret EXCEPT
                                         !.agent = b,
                                         !.phase = "age",
                                         !.log = Append(@,
                                            [alive |-> Alive(a),
                                             cooldown |-> a.hunt_cooldown,
                                             hp |-> a.combat_stats.current_hp,
                                             hunted |-> target # 0,
                                             kill |-> target # 0 /\ r.kill,
                                             cooldown_end |-> b.hunt_cooldown])]
    /\ UNCHANGED <<simVars, h_pred, h_prey, h_phase>>

CooldownNext == TickAge \/ TickBehave

SpecCooldown == CooldownInit /\ [][CooldownNext]_vars

\* C31: a predator hunts in a tick only with hunt_cooldown 0 after that
\* tick's decrement and health above 5; a kill sets the cooldown to 2, the
\* predator does not hunt in the tick after a kill, and from one tick to the
\* next the cooldown goes down by exactly 1, stopping at 0.
C31_HuntCooldown ==
    LET log == h_ret.log
    IN  /\ \A i \in 1..Len(log) :
              /\ log[i].hunted => (log[i].cooldown = 0 /\ log[i].hp > 5)
              /\ log[i].kill => log[i].cooldown_end = 2
              /\ ~log[i].kill => log[i].cooldown_end = log[i].cooldown
              /\ log[i].cooldown >= 0
        /\ \A i \in 1..(Len(log) - 1) :
              /\ log[i].kill => ~log[i + 1].hunted
              /\ log[i + 1].alive
                 => log[i + 1].cooldown = Max(0, log[i].cooldown_end - 1)

\* A kill in one tick, no hunt in the next, a hunt in the one after
C31_Witness ==
    \E i \in 1..(Len(h_ret.log) - 2) :
        /\ h_ret.log[i].kill
        /\ h_ret.log[i + 1].cooldown = 1
        /\ ~h_ret.log[i + 1].hunted
        /\ h_ret.log[i + 2].cooldown = 0
        /\ h_ret.log[i + 2].hunted


\* How many herbivore (predator) updates have run to their end
HerbivoreUpdatesDone ==
    IF pc \in {"h_age", "h_behave", "h_prune"} THEN turn - 1 ELSE turn

PredatorUpdatesDone ==
    IF pc \in {"h_age", "h_behave", "h_prune"} \cup PredatorUpdatePcs
    THEN turn - 1 ELSE turn

\* How many agents of the species the live list holds
InLiveList(list, species) ==
    Cardinality({i \in 1..Len(list) : agents[list[i]].species = species})

LastEntry(series) == series[Len(series)]

\* C32: every species' population history has one entry from the spawn and
\* one per finished update of its group, and the entry an update appends is
\* the number of agents of the species in the live list it has just pruned.
C32_PopulationHistory ==
    /\ \A s \in HerbivoreSpecies :
          /\ Len(population_history.herbivores[s]) = HerbivoreUpdatesDone + 1
          /\ last.step = "h_prune"
             => LastEntry(population_history.herbivores[s]) = InLiveList(herbivores, s)
    /\ \A s \in PredatorSpecies :
          /\ Len(population_history.predators[s]) = PredatorUpdatesDone + 1
          /\ last.step = "p_prune"
             => LastEntry(population_history.predators[s]) = InLiveList(predators, s)

\* The second predator update has just pruned, and a herbivore series and
\* a predator series have both changed since the spawn
C32_Witness ==
    /\ last.step = "p_prune"
    /\ turn = 2
    /\ \E s \in HerbivoreSpecies :
          LastEntry(population_history.herbivores[s]) # population_history.herbivores[s][1]
    /\ \E s \in PredatorSpecies :
          /\ Len(population_history.predators[s]) = 3
          /\ LastEntry(population_history.predators[s]) # population_history.predators[s][1]


\* v is the residue of u modulo size: in 0..size-1 and a multiple of size
\* away from u
IsResidue(v, u, size) ==
    /\ v \in 0..(size - 1)
    /\ \E k \in -4..4 : u = v + k * size

\* C33: after move(dx, dy), and after a movement step of either group, the
\* agent stands inside the grid; move(dx, dy) puts it at ((x + dx) mod
\* width, (y + dy) mod height) for negative and oversized deltas alike.
C33_PositionsWrapped ==
    (h_call.op \in {"move", "move_animal", "move_predator"})
    => /\ h_ret.agent.x \in 0..(Width - 1)
       /\ h_ret.agent.y \in 0..(Height - 1)
       /\ h_call.op = "move"
          => /\ IsResidue(h_ret.agent.x, h_call.agent.x + h_call.dx, Width)
             /\ IsResidue(h_ret.agent.y, h_call.agent.y + h_call.dy, Height)

\* A move to the left by more than the grid's width from the first column
C33_Witness ==
    /\ h_call.op = "move"
    /\ h_call.agent.x = 0
    /\ h_call.dx = -(Width + 1)
    /\ h_call.dy = 2 * Width + 1
    /\ h_ret.agent.x = Width - 1


\* C34: resolve_predator_hunt reports a kill only when its attack hit and
\* took the prey from a positive health to 0: a reported kill comes with a
\* damage above 0, and prey already at 0 gives no kill and no kill record.
C34_KillOnlyByThisAttack ==
    h_call.op = "resolve_predator_hunt"
    => /\ h_ret.kill => (h_ret.hit /\ h_ret.damage > 0 /\ h_call.prey.current_hp > 0)
       /\ h_call.prey.current_hp = 0 => (~h_ret.kill /\ ~h_ret.logged)


\* The herbivore the predator whose behaviour step this is goes for (0 if
\* it attacks none)
HuntedNow ==
    IF pc = "p_behave" /\ idx <= Len(predators) /\ idx' = idx + 1
       /\ last'.step = "p_behave" /\ last'.before # <<>>
    THEN last'.before[1] ELSE 0

\* C35: the herbivore a predator attacks is, when the hunt begins, in the
\* herbivore live list and alive.
C35_HuntsOnlyTheLiving ==
    [][HuntedNow # 0
       => (HuntedNow \in Members(herbivores) /\ Alive(agents[HuntedNow]))]_vars


\* ---------------------------------------------------------------------------
\* Predators and a tribe unit: the behaviour loop of one predator update
\* over wolves standing around a unit, no herbivore in reach, then the dead
\* unit cleanup of advance_turn.
\* ---------------------------------------------------------------------------

\* Bound: how many predators stand around the unit
MaxAttackers == 3

\* Unit(x, y): hp 10 of max_hp 10
Unit(x, y, hp) == [x |-> x, y |-> y, hp |-> hp, kills |-> 0]

\* The unit branch of _attempt_hunt on predator p and the unit: a hit takes
\* int(attack * 0.5) off the unit's hp and, if that leaves hp <= 0, logs a
\* 'kill', heals the predator by int(max_hp * 0.5) and sets hunt_cooldown
\* to 3; a miss costs the predator consume_energy(0.05).
attack_unit(p, unit, hit) ==
    IF hit
    THEN LET damage == p.combat_stats.attack \div 2
             hurt == [unit EXCEPT !.hp = @ - damage]
         IN  IF hurt.hp <= 0
             THEN [predator |-> [p EXCEPT !.combat_stats = heal(@, HpFraction(p, 500)),
                                          !.hunt_cooldown = 3],
                   unit |-> [hurt EXCEPT !.kills = @ + 1], kill |-> TRUE]
             ELSE [predator |-> p, unit |-> hurt, kill |-> FALSE]
    ELSE [predator |-> consume_energy(p, 50), unit |-> unit, kill |-> FALSE]

\* The units within hunting_range of the predator: positions in
\* tribe_units, every unit of the list being a candidate
UnitsInRange(p, units) ==
    {k \in 1..Len(units) : unit_dist2(p, units[k]) <= HuntingRange * HuntingRange}

AttackerCells == <<<<1, 0>>, <<0, 1>>, <<6, 6>>, <<1, 1>>>>

UnitsInit ==
    /\ SimIdle
    /\ h_pred = CombatStats(40, 40, 18, 5, 9, 10, 90)
    /\ h_prey = CombatStats(30, 30, 5, 3, 8, 20, 100)
    /\ h_call = NoCall
    /\ \E n \in 1..MaxAttackers, unit_hp \in {1, 10} :
       \E hps \in [1..n -> {20, 40}] :
          h_ret = [predators |->
                      [k \in 1..n |->
                          [NewAgent("predator", AttackerCells[((k - 1) % 4) + 1][1],
                                    AttackerCells[((k - 1) % 4) + 1][2], "wolf")
                              EXCEPT !.combat_stats.current_hp = hps[k]]],
                   units |-> <<Unit(0, 0, unit_hp)>>,
                   i |-> 1, heals |-> 0, phase |-> "behave"]
    /\ h_phase = "done"

\* One iteration of the behaviour loop: move, then hunt if able
UnitHuntIteration ==
    /\ h_ret.phase = "behave"
    /\ h_ret.i <= Len(h_ret.predators)
    /\ LET a == h_ret.predators[h_ret.i]
       IN  IF SkipsBehaviour(a)
           THEN /\ h_call' = [op |-> "predator_behaviour", agent |-> a, struck |-> FALSE]
                /\ h_ret' = [h_ret EXCEPT !.i = @ + 1]
           ELSE \E c \in PredatorMoveTargets(a, <<>>), hit \in BOOLEAN :
                  LET p == MovedTo(a, c)
                      near == UnitsInRange(p, h_ret.units)
                      k == CHOOSE j \in near : \A m \in near :
                              unit_dist2(p, h_ret.units[j]) < unit_dist2(p, h_ret.units[m])
                              \/ (unit_dist2(p, h_ret.units[j])
                                     = unit_dist2(p, h_ret.units[m]) /\ j <= m)
                      hunts == can_hunt(p) /\ near # {}
                      r == attack_unit(p, h_ret.units[k], hit)
                  IN  /\ h_call' = [op |-> "predator_behaviour", agent |-> a,
                                    struck |-> hunts /\ hit]
                      /\ h_ret' = IF hunts
                                  THEN [h_ret EXCEPT
                                           !.predators[h_ret.i] = r.predator,
                                           !.units[k] = r.unit,
                                           !.heals = IF r.kill THEN @ + 1 ELSE @,
                                           !.i = @ + 1]
                                  ELSE [h_ret EXCEPT !.predators[h_ret.i] = p,
                                                     !.i = @ + 1]
    /\ UNCHANGED <<simVars, h_pred, h_prey, h_phase>>

\* "Cleanup dead units" of advance_turn, after the updates
UnitCleanup ==
    /\ h_ret.phase = "behave"
    /\ h_ret.i > Len(h_ret.predators)
    /\ h_call' = [op |-> "cleanup_dead_units"]
    /\ h_ret' = [h_ret EXCEPT !.units = SelectSeq(@, LAMBDA u : u.hp > 0),
                              !.phase = "done"]
    /\ UNCHANGED <<simVars, h_pred, h_prey, h_phase>>

UnitsNext == UnitHuntIteration \/ UnitCleanup

SpecUnits == UnitsInit /\ [][UnitsNext]_vars

\* C36: a unit's hp never goes below 0, a unit gets at most one 'kill'
\* event, and at most one predator gets the kill heal for it.
C36_DeadUnitsLeftAlone ==
    /\ \A k \in 1..Len(h_ret.units) :
          /\ h_ret.units[k].hp >= 0
          /\ h_ret.units[k].kills <= 1
    /\ h_ret.heals <= 1


\* The entries of spatial map m that put a living agent of the parent's
\* species, other than the parent id, within 3 cells of the parent on each
\* axis, wrapped
LivingMates(m, id, parent) ==
    {j \in 1..Len(m) :
        /\ m[j].id # id
        /\ agents[m[j].id].species = parent.species
        /\ Alive(agents[m[j].id])
        /\ Landing(parent.x, 3, m[j].x, Width) # {}
        /\ Landing(parent.y, 3, m[j].y, Height) # {}}

\* C37: an agent produces offspring only if its group's spatial index
\* records a living agent of its species, other than itself, within 3 cells.
C37_MateIsAlive ==
    [][(last'.step \in {"h_behave", "p_behave"} /\ Len(agents') > Len(agents))
       => LivingMates(IF last'.step = "h_behave" THEN herb_map ELSE pred_map,
                      last'.id, last'.at[1]) # {}]_vars


\* can_reproduce of the agent's class
CanReproduce(a) ==
    IF a.kind = "herbivore" THEN HerbivoreCanReproduce(a) ELSE PredatorCanReproduce(a)

\* C38: a parent that satisfies can_reproduce is alive after paying the
\* reproduction cost, which is int(0.3 * max_hp) taken through take_damage.
C38_ParentSurvivesReproduction ==
    (h_call.op = "reproduce_litter" /\ CanReproduce(h_call.parent))
    => /\ h_ret.parent.combat_stats.current_hp > 0
       /\ h_call.parent.combat_stats.current_hp - h_ret.parent.combat_stats.current_hp
          = Min(Max(1, (3 * h_call.parent.combat_stats.max_hp) \div 10
                        - h_call.parent.combat_stats.defense),
                h_call.parent.combat_stats.current_hp)

\* A frog at its reproduction threshold (4 of 5) has paid and stands at 3
C38_Witness ==
    /\ h_call.op = "reproduce_litter"
    /\ h_call.parent.species = "frog"
    /\ CanReproduce(h_call.parent)
    /\ h_call.parent.combat_stats.current_hp = 4
    /\ h_ret.parent.combat_stats.current_hp = 3
    /\ h_ret.parent.reproductive_cooldown = 6


(***************************************************************************)
(* C39: extinction is permanent and reported once                          *)
(***************************************************************************)

\* The counts appended for a species by its group's updates
CountSeries(sp) ==
    IF sp \in HerbivoreSpecies THEN population_history.herbivores[sp]
                               ELSE population_history.predators[sp]

\* How often a species is in statistics['extinctions']
TimesListed(sp) ==
    Cardinality({i \in 1..Len(statistics.extinctions) :
                    statistics.extinctions[i] = sp})

\* C39: with migration disabled, a species that has no member in its group's
\* live list at the end of an update has none at the end of every later
\* update, and its name is appended to statistics['extinctions'] exactly
\* once over the run: never twice, only when it is gone, and by the end of
\* the turn in which it was gone.
C39_ExtinctionPermanentReportedOnce ==
    \A sp \in HerbivoreSpecies \cup PredatorSpecies :
        /\ \A i, j \in 1..Len(CountSeries(sp)) :
              (i < j /\ CountSeries(sp)[i] = 0) => CountSeries(sp)[j] = 0
        /\ TimesListed(sp) <= 1
        /\ TimesListed(sp) = 1 => LastEntry(CountSeries(sp)) = 0
        /\ (pc = "idle" /\ turn >= 1 /\ LastEntry(CountSeries(sp)) = 0)
           => TimesListed(sp) = 1

\* A species that had members, lost the last one in the first update, and is
\* listed once at the end of the second turn
C39_Witness ==
    /\ pc = "idle"
    /\ turn = 2
    /\ \E sp \in HerbivoreSpecies \cup PredatorSpecies :
          /\ Len(CountSeries(sp)) = 3
          /\ CountSeries(sp)[1] > 0
          /\ CountSeries(sp)[2] = 0
          /\ TimesListed(sp) = 1


(***************************************************************************)
(* The avian and the aquatic part of the ecology update, and its cleanup   *)
(* (specification SpecWildlife).  Energy and insect density in 1/1000.     *)
(***************************************************************************)

\* The most creatures a list of the model holds: a birth beyond it is left out.
MaxWildlife == 3

\* AvianCreature(x, y, species) / AquaticCreature(x, y, species) with the
\* energy and age set afterwards.  id names the object; killed_now records
\* that a predator set the energy to 0 in this update, ran_after that the
\* creature's own iteration ran after that.
Creature(id, x, y, species, energy, age) ==
    [id |-> id, x |-> x, y |-> y, species |-> species, energy |-> energy,
     age |-> age, reproductive_cooldown |-> 0, cause_of_death |-> "none",
     killed_now |-> FALSE, ran_after |-> FALSE]

\* AvianCreature / AquaticCreature .consume_energy and .gain_energy
creature_consume_energy(c, amount) == [c EXCEPT !.energy = Max(0, @ - amount)]
creature_gain_energy(c, amount) == [c EXCEPT !.energy = Min(1000, @ + amount)]

\* AvianCreature / AquaticCreature .is_alive
creature_is_alive(c) == c.energy > 0

\* prey.energy = 0; prey.cause_of_death = 'predation'
Preyed(c) ==
    [c EXCEPT !.energy = 0, !.cause_of_death = "predation", !.killed_now = TRUE]

\* world.elevation in 1/100: the water cells of the model's map lie below
\* 0.4, the others above 0.45
ElevationAt(c) == IF BiomeAt(c[1], c[2]) \in WaterBiomes THEN 30 ELSE 60

\* InsectSystem.consume on the density map: what is taken from the cell, and
\* the density left
InsectsTaken(insects, c, amount) ==
    LET consumed == insects_consume(insects[c], amount)
    IN  [consumed |-> consumed, insects |-> [insects EXCEPT ![c] = @ - consumed]]

\* A logger_callback call of the ecology system
LogEvent(kind, species, details, id) ==
    [kind |-> kind, species |-> species, details |-> details, id |-> id]

\* The birds a raptor at index i can take: the entries of avian_map at its
\* cell, itself left out, of the three small species
RaptorPrey(w, i) ==
    {k \in 1..Len(w.avian_map) :
        /\ w.avian_map[k] = <<w.avian[i].x, w.avian[i].y>>
        /\ k # i
        /\ w.avian[k].species \in {"songbird", "insectivore", "waterfowl"}}

\* The fish a seabird at index i can take: the fish closer than 2
SeabirdPrey(w, i) ==
    {k \in 1..Len(w.aquatic) :
        /\ w.aquatic[k].species = "fish"
        /\ (w.aquatic[k].x - w.avian[i].x) * (w.aquatic[k].x - w.avian[i].x)
           + (w.aquatic[k].y - w.avian[i].y) * (w.aquatic[k].y - w.avian[i].y) < 4}

\* The feeding of the bird at index i, by species.  victim is the prey whose
\* roll succeeded first (0: none did), herb_roll the 5% roll of the raptor's
\* hunt of herbivores, log_roll the 10% roll of the insect log line.
AvianFeed(w, i, victim, herb_roll, log_roll) ==
    LET b == w.avian[i]
        c == <<b.x, b.y>>
        take(amount) == InsectsTaken(w.insects, c, amount)
        logged(consumed) ==
            IF consumed > 50 /\ log_roll
            THEN Append(w.events, LogEvent("predation", b.species, "insect", b.id))
            ELSE w.events
    IN  CASE b.species = "songbird" ->
               LET t == take(200)
               IN  [w EXCEPT
                      !.insects = t.insects,
                      !.events = logged(t.consumed),
                      !.avian[i] = IF t.consumed > 50
                                   THEN creature_gain_energy(b, t.consumed)
                                   ELSE IF w.veg > 30
                                   THEN creature_gain_energy(b, 80)
                                   ELSE b]
          [] b.species = "insectivore" ->
               LET t == take(300)
               IN  [w EXCEPT
                      !.insects = t.insects,
                      !.events = logged(t.consumed),
                      !.avian[i] = IF t.consumed > 50
                                   THEN creature_gain_energy(b, t.consumed)
                                   ELSE b]
          [] b.species = "waterfowl" ->
               IF ElevationAt(c) < 45
               THEN LET t == take(150)
                    IN  [w EXCEPT
                           !.insects = t.insects,
                           !.events = logged(t.consumed),
                           !.avian[i] = creature_gain_energy(b, t.consumed + 100)]
               ELSE w
          [] b.species = "raptor" ->
               IF victim \in RaptorPrey(w, i)
               THEN [w EXCEPT
                       !.avian[victim] = Preyed(@),
                       !.avian[i] = creature_gain_energy(b, 500),
                       !.events = Append(@, LogEvent("predation", b.species,
                                                     w.avian[victim].species, b.id))]
               ELSE IF herb_roll
               THEN [w EXCEPT !.avian[i] = creature_gain_energy(b, 400)]
               ELSE w
          [] b.species = "seabird" ->
               IF victim \in SeabirdPrey(w, i)
               THEN [w EXCEPT
                       !.aquatic[victim] = Preyed(@),
                       !.avian[i] = creature_gain_energy(b, 300),
                       !.events = Append(@, LogEvent("predation", b.species,
                                                     "fish", b.id))]
               ELSE w
          [] OTHER -> w

\* The outcomes of a roll: both where the creature's code makes it, a
\* failure where it does not
Rolls(made) == IF made THEN BOOLEAN ELSE {FALSE}

\* The steps the model follows a migrating bird through (dx, dy of -2..2)
MigrationSteps == {<<-2, 1>>}

\* How many entries avian_map / aquatic_map has at a cell
Neighbors(map, c) == Cardinality({k \in 1..Len(map) : map[k] = c})

\* One iteration of the loop of _update_avian: age and metabolism, the
\* feeding, the migration step in spring and fall, the clutch (appended to
\* the list the loop runs over), the cooldown.  chicks is -1 when the
\* reproduction roll fails, else the number of chicks whose 60% roll succeeds
\* (as far as the list of the model has room).
AvianIteration ==
    /\ h_call.op = "update_avian"
    /\ h_ret.i <= Len(h_ret.avian)
    /\ \E victim \in {0} \cup RaptorPrey(h_ret, h_ret.i)
                          \cup SeabirdPrey(h_ret, h_ret.i),
          herb_roll \in Rolls(h_ret.avian[h_ret.i].species = "raptor"),
          log_roll \in Rolls(h_ret.avian[h_ret.i].species
                                \in {"songbird", "insectivore", "waterfowl"}),
          step \in {<<0, 0>>} \cup (IF h_ret.season \in {0, 2} THEN MigrationSteps
                                    ELSE {}),
          chicks \in -1..Min(2, MaxWildlife - Len(h_ret.avian)) :
         LET i == h_ret.i
             b0 == h_ret.avian[i]
             b1 == creature_consume_energy(
                       [b0 EXCEPT !.age = @ + 1, !.ran_after = b0.killed_now], 50)
             b2 == IF b1.age > 100 THEN creature_consume_energy(b1, 100) ELSE b1
             w1 == AvianFeed([h_ret EXCEPT !.avian[i] = b2], i, victim,
                             herb_roll, log_roll)
             b3 == w1.avian[i]
             migrates == h_ret.season \in {0, 2} /\ step # <<0, 0>>
             to == Wrap(b3.x, b3.y, step[1], step[2])
             b4 == IF migrates
                   THEN creature_consume_energy([b3 EXCEPT !.x = to[1], !.y = to[2]], 30)
                   ELSE b3
             fit == b4.energy > 650 /\ b4.age > 3 /\ b4.reproductive_cooldown = 0
             lays == fit /\ chicks >= 0
             b5 == IF lays THEN [b4 EXCEPT !.reproductive_cooldown = 8] ELSE b4
             b6 == [b5 EXCEPT !.reproductive_cooldown = IF @ > 0 THEN @ - 1 ELSE @]
             room == MaxWildlife - Len(h_ret.avian)
             born == IF lays THEN Min(chicks, room) ELSE 0
             clutch == [k \in 1..born |->
                          Creature(h_ret.next_id + k - 1, b4.x, b4.y, b4.species, 400, 0)]
         IN  h_ret' = [w1 EXCEPT !.avian = [@ EXCEPT ![i] = b6] \o clutch,
                                 !.next_id = @ + born,
                                 !.i = @ + 1]
    /\ UNCHANGED <<h_pred, h_prey, h_call, h_phase>>
    /\ UNCHANGED simVars

\* The loop of _update_avian has run off the end of the list: update goes
\* on with _update_aquatic, which builds aquatic_map first.
AvianDone ==
    /\ h_call.op = "update_avian"
    /\ h_ret.i > Len(h_ret.avian)
    /\ h_call' = [op |-> "update_aquatic"]
    /\ h_ret' = [h_ret EXCEPT
                   !.i = 1,
                   !.aquatic_map = [k \in 1..Len(h_ret.aquatic) |->
                                       <<h_ret.aquatic[k].x, h_ret.aquatic[k].y>>]]
    /\ UNCHANGED <<h_pred, h_prey, h_phase>>
    /\ UNCHANGED simVars


\* The creatures an aquatic hunter at index i can take: the entries of
\* aquatic_map at its cell of the species it hunts (the shark leaves itself out)
AquaticPrey(w, i) ==
    LET a == w.aquatic[i]
        hunted == CASE a.species = "predatory_fish" -> {"fish"}
                    [] a.species = "marine_mammal" -> {"fish", "predatory_fish"}
                    [] a.species = "shark" -> {"fish", "predatory_fish", "marine_mammal"}
                    [] OTHER -> {}
    IN  {k \in 1..Len(w.aquatic_map) :
            /\ w.aquatic_map[k] = <<a.x, a.y>>
            /\ k # i
            /\ w.aquatic[k].species \in hunted}

\* What a successful hunt gives the hunter
HuntGain(species) ==
    CASE species = "predatory_fish" -> 300
      [] species = "marine_mammal" -> 250
      [] OTHER -> 400

\* One row of the scan of a beached creature: the first dx of -1, 0, 1 that
\* leads to water is taken, and the row is left
ReturnRow(a, dy) ==
    LET wet == {dx \in {-1, 0, 1} : ElevationAt(Wrap(a.x, a.y, dx, dy)) < 40}
        dx == CHOOSE d \in wet : \A e \in wet : d <= e
        to == Wrap(a.x, a.y, dx, dy)
    IN  IF wet = {} THEN a ELSE [a EXCEPT !.x = to[1], !.y = to[2]]

\* The scan of a beached creature: the break leaves the row only, so the
\* rows that follow scan from where the creature has moved to
ReturnToWater(a) == ReturnRow(ReturnRow(ReturnRow(a, -1), 0), 1)

\* The feeding of the creature at index i when it is in water.  victim is
\* the prey whose roll succeeded first (0: none did), step the move of the
\* school (<<0, 0>>: the 40% roll failed), log_roll the roll of the insect
\* log line.
AquaticFeed(w, i, victim, step, log_roll) ==
    LET a == w.aquatic[i]
        c == <<a.x, a.y>>
    IN  IF a.species = "fish"
        THEN LET a1 == IF 8 < w.temp /\ w.temp < 14
                       THEN creature_gain_energy(a, 120) ELSE a
                 t == InsectsTaken(w.insects, c, 100)
                 a2 == IF t.consumed > 10 THEN creature_gain_energy(a1, t.consumed)
                       ELSE a1
                 to == Wrap(a2.x, a2.y, step[1], step[2])
                 a3 == IF ElevationAt(to) < 40 THEN [a2 EXCEPT !.x = to[1], !.y = to[2]]
                       ELSE a2
             IN  [w EXCEPT
                    !.insects = t.insects,
                    !.events = IF t.consumed > 10 /\ log_roll
                               THEN Append(@, LogEvent("predation", "fish", "insect", a.id))
                               ELSE @,
                    !.aquatic[i] = a3]
        ELSE IF victim \in AquaticPrey(w, i)
        THEN [w EXCEPT
                !.aquatic[victim] = Preyed(@),
                !.aquatic[i] = creature_gain_energy(a, HuntGain(a.species)),
                !.events = Append(@, LogEvent("predation", a.species,
                                              w.aquatic[victim].species, a.id))]
        ELSE w

\* The steps the model follows a school through (dx, dy of -1..1)
SchoolSteps == {<<1, 0>>}

\* One iteration of the loop of _update_aquatic: age and metabolism, the
\* way back to water or the feeding, the crowding penalty, the offspring
\* (appended to the list the loop runs over), the cooldown.  babies is -1
\* when the reproduction roll fails, else the number of 50% rolls that
\* succeed (as far as the list of the model has room).
AquaticIteration ==
    /\ h_call.op = "update_aquatic"
    /\ h_ret.i <= Len(h_ret.aquatic)
    /\ \E victim \in {0} \cup AquaticPrey(h_ret, h_ret.i),
          step \in {<<0, 0>>} \cup (IF h_ret.aquatic[h_ret.i].species = "fish"
                                    THEN SchoolSteps ELSE {}),
          log_roll \in Rolls(h_ret.aquatic[h_ret.i].species = "fish"),
          babies \in -1..Min(3, MaxWildlife - Len(h_ret.aquatic)) :
         LET i == h_ret.i
             a0 == h_ret.aquatic[i]
             a1 == creature_consume_energy(
                       [a0 EXCEPT !.age = @ + 1, !.ran_after = a0.killed_now], 40)
             a2 == IF a1.age > 120 THEN creature_consume_energy(a1, 100) ELSE a1
             beached == ElevationAt(<<a2.x, a2.y>>) >= 40
             w1 == IF beached
                   THEN [h_ret EXCEPT !.aquatic[i] = ReturnToWater(a2)]
                   ELSE AquaticFeed([h_ret EXCEPT !.aquatic[i] = a2], i, victim,
                                    step, log_roll)
             a3 == w1.aquatic[i]
             neighbors == Neighbors(h_ret.aquatic_map, <<a3.x, a3.y>>)
             a4 == IF neighbors > 5
                   THEN creature_consume_energy(a3, 10 * (neighbors - 5)) ELSE a3
             fit == a4.energy > 700 /\ a4.age > 4 /\ a4.reproductive_cooldown = 0
             offspring_count == IF a4.species = "fish" THEN 3 ELSE 1
             spawns == fit /\ babies >= 0
             a5 == IF spawns THEN [a4 EXCEPT !.reproductive_cooldown = 8] ELSE a4
             a6 == [a5 EXCEPT !.reproductive_cooldown = IF @ > 0 THEN @ - 1 ELSE @]
             room == MaxWildlife - Len(h_ret.aquatic)
             born == IF spawns THEN Min(Min(babies, offspring_count), room) ELSE 0
             brood == [k \in 1..born |->
                         Creature(h_ret.next_id + k - 1, a4.x, a4.y, a4.species, 500, 0)]
         IN  h_ret' = [w1 EXCEPT !.aquatic = [@ EXCEPT ![i] = a6] \o brood,
                                 !.next_id = @ + born,
                                 !.i = @ + 1]
    /\ UNCHANGED <<h_pred, h_prey, h_call, h_phase>>
    /\ UNCHANGED simVars

\* The loop of _update_aquatic has run off the end of the list.
AquaticDone ==
    /\ h_call.op = "update_aquatic"
    /\ h_ret.i > Len(h_ret.aquatic)
    /\ h_call' = [op |-> "cleanup"]
    /\ UNCHANGED <<h_pred, h_prey, h_ret, h_phase>>
    /\ UNCHANGED simVars

\* The cause logged for a creature that is not alive: cause_of_death, or
\* 'starvation', which past the given age reads 'old_age'
WildlifeCause(c, old) ==
    LET cause == IF c.cause_of_death # "none" THEN c.cause_of_death ELSE "starvation"
    IN  IF c.age > old /\ cause = "starvation" THEN "old_age" ELSE cause

\* The 'death' callbacks of a list, in its order
RECURSIVE DeathEvents(_, _)
DeathEvents(list, old) ==
    IF list = <<>> THEN <<>>
    ELSE (IF creature_is_alive(Head(list)) THEN <<>>
          ELSE <<LogEvent("death", Head(list).species, WildlifeCause(Head(list), old),
                          Head(list).id)>>)
         \o DeathEvents(Tail(list), old)

\* The end of update: the deaths are logged, then the creatures that are
\* not alive leave the two lists.  removed keeps them for the record.
WildlifeCleanup ==
    /\ h_call.op = "cleanup"
    /\ h_call' = [op |-> "update_done"]
    /\ h_ret' = [h_ret EXCEPT
                   !.events = @ \o DeathEvents(h_ret.avian, 100)
                                \o DeathEvents(h_ret.aquatic, 120),
                   !.avian = SelectSeq(@, creature_is_alive),
                   !.aquatic = SelectSeq(@, creature_is_alive),
                   !.removed = SelectSeq(h_ret.avian \o h_ret.aquatic,
                                         LAMBDA c : ~creature_is_alive(c))]
    /\ UNCHANGED <<h_pred, h_prey, h_phase>>
    /\ UNCHANGED simVars

\* The species the model starts the two birds and the two water creatures
\* as, in list order, and the cell of the second bird: the water cell the
\* others are in, or the land next to it
Casts ==
    {[birds |-> <<"raptor", "songbird">>, fish |-> <<"fish", "shark">>,
      c2 |-> <<3, 1>>],
     [birds |-> <<"songbird", "raptor">>, fish |-> <<"shark", "fish">>,
      c2 |-> <<3, 1>>],
     [birds |-> <<"seabird", "waterfowl">>, fish |-> <<"predatory_fish", "fish">>,
      c2 |-> <<4, 1>>],
     [birds |-> <<"insectivore", "raptor">>, fish |-> <<"fish", "marine_mammal">>,
      c2 |-> <<3, 1>>],
     [birds |-> <<"waterfowl", "seabird">>,
      fish |-> <<"marine_mammal", "predatory_fish">>, c2 |-> <<4, 1>>]}

\* The surroundings the model starts an update in: insect density,
\* vegetation (1/300), water temperature (1/20), season, and the energy and
\* age of the second bird
Habitats ==
    {[insects |-> 300, veg |-> 150, temp |-> 10, season |-> 1,
      energy |-> 700, age |-> 5],
     [insects |-> 0, veg |-> 150, temp |-> 4, season |-> 0,
      energy |-> 40, age |-> 101],
     [insects |-> 0, veg |-> 0, temp |-> 10, season |-> 1,
      energy |-> 700, age |-> 5]}

\* The start of the avian part of an update: two birds over the water cell
\* or next to it, two creatures in the water cell; avian_map is built.
WildlifeInit ==
    /\ SimIdle
    /\ h_pred = CombatStats(40, 40, 18, 5, 9, 10, 90)
    /\ h_prey = CombatStats(30, 30, 5, 3, 8, 20, 100)
    /\ h_phase = "done"
    /\ h_call = [op |-> "update_avian"]
    /\ \E cast \in Casts, hab \in Habitats :
         h_ret = [avian |-> <<Creature(1, 3, 1, cast.birds[1], 700, 5),
                              Creature(2, cast.c2[1], cast.c2[2], cast.birds[2],
                                       hab.energy, hab.age)>>,
                  aquatic |-> <<Creature(3, 3, 1, cast.fish[1], 800, 5),
                                Creature(4, 3, 1, cast.fish[2], 800, 5)>>,
                  avian_map |-> <<(<<3, 1>>), cast.c2>>,
                  aquatic_map |-> <<>>,
                  insects |-> [c \in Cells |-> hab.insects],
                  veg |-> hab.veg, season |-> hab.season, temp |-> hab.temp,
                  events |-> <<>>, removed |-> <<>>,
                  next_id |-> 5, i |-> 1]

WildlifeNext ==
    \/ AvianIteration
    \/ AvianDone
    \/ AquaticIteration
    \/ AquaticDone
    \/ WildlifeCleanup

SpecWildlife == WildlifeInit /\ [][WildlifeNext]_vars

\* The creatures of the update, whether they are still in a list or not
AllWildlife ==
    {h_ret.avian[k] : k \in 1..Len(h_ret.avian)}
    \cup {h_ret.aquatic[k] : k \in 1..Len(h_ret.aquatic)}
    \cup {h_ret.removed[k] : k \in 1..Len(h_ret.removed)}

\* C40: an avian or aquatic creature whose energy a predator has set to 0
\* during an ecology update takes no further action in that update, is not
\* alive at its end, and is removed by the cleanup with a death event of
\* cause 'predation'.
C40_PreyDiesOfPredation ==
    h_call.op = "update_done"
    => \A c \in AllWildlife :
          c.killed_now
          => /\ ~c.ran_after
             /\ ~creature_is_alive(c)
             /\ \E k \in 1..Len(h_ret.removed) : h_ret.removed[k].id = c.id
             /\ \E k \in 1..Len(h_ret.events) :
                   h_ret.events[k] = LogEvent("death", c.species, "predation", c.id)

====
